---- MODULE Spec2Model ----
(***************************************************************************)
(* State-machine model of the request-handling core of kusocatjs:          *)
(*   - Context, the resolution container   (packages/core/lib/context.ts)  *)
(*   - Router / Matcher, the segment trie  (packages/core/lib/logging.ts,  *)
(*     which holds the router source after the logging interface)          *)
(*   - App.#handle, the request dispatcher (packages/core/lib/app.ts)      *)
(* Each component has its own specification (SpecContext, SpecRouter,      *)
(* SpecApp); the variables of the other components keep their initial      *)
(* values.                                                                 *)
(***************************************************************************)
EXTENDS Integers, Sequences, FiniteSets, TLC

VARIABLES
    \* ---- Context (context.ts:55-57)
    instances,      \* #instances : Map key -> cached value
    resolvers,      \* #resolvers : Map key -> resolver
    immutables,     \* #immutables: Set of keys
    calls,          \* per key: invocations of the resolver now registered
    last,           \* the error of the last operation on the container
    classes,        \* #classes   : the types whose prepared subclass is cached
    built,          \* per type: the instances made with new
    wants,          \* per type: the wants its decorators declared (getWants)
    pending,        \* singleton() calls suspended at their await
    returned,       \* the construct() / singleton() calls that have settled
    listeners,      \* per key: the callbacks attached with resolved(key, callback)
    watching,       \* a listener is attached to the container's 'resolved' event
    assigned,       \* the assignments (#set) some callback or watcher could see
    thens,          \* the then-callbacks #set put on promises not yet fulfilled
    immediates,     \* the callbacks given to setImmediate, not yet run
    fired,          \* the listener calls and 'resolved' notifications, in order
    promises,       \* the promises async resolvers and #set made, in order
    parked,         \* async resolvers suspended at an await of their own
    cache,          \* #instances where the values are promises: key -> promise
    asked,          \* the get() calls made on async resolvers and what they gave
    \* ---- Router (logging.ts:289-290) and its Matcher tries (logging.ts:219-223)
    routes,         \* the route objects #createRoute has made, in order
    matchers,       \* #matchers   : Map method -> trie of Matcher nodes
    namedRoutes,    \* #namedRoutes: Map name -> route
    routed,         \* the last resolve / generate call and its outcome
    \* ---- App (app.ts:285) and one call of App.#handle (app.ts:354-450)
    appMiddleware,  \* #middleware: the number of middleware installed
    handle,         \* the locals of the running #handle and what it has done
    installed,      \* #middleware as the array of the functions installed
    flights         \* per request in flight: the locals of its #handle call

typeVars == <<classes, built, wants, pending, returned>>

eventVars == <<listeners, watching, assigned, thens, immediates, fired>>

asyncVars == <<promises, parked, cache, asked>>

ctxVars == <<instances, resolvers, immutables, calls, last, typeVars, eventVars, asyncVars>>

routerVars == <<routes, matchers, namedRoutes, routed>>

flightVars == <<installed, flights>>

appVars == <<appMiddleware, handle, flightVars>>

vars == <<instances, resolvers, immutables, calls, last,
          classes, built, wants, pending, returned,
          listeners, watching, assigned, thens, immediates, fired,
          promises, parked, cache, asked,
          routes, matchers, namedRoutes, routed, appMiddleware, handle,
          installed, flights>>

(***************************************************************************)
(* Generic helpers                                                         *)
(***************************************************************************)
Range(s) == {s[i] : i \in DOMAIN s}

InSeq(x, s) == \E i \in DOMAIN s : s[i] = x

\* Map.set(k, v) on a map kept as a function whose domain is the key set.
\* The one element of a one-element set: { e(x) : x \in {v} } names the
\* value v once, however often e uses it.
Only(S) == CHOOSE x \in S : TRUE

MapSet(m, k, v) == [x \in (DOMAIN m) \cup {k} |-> IF x = k THEN v ELSE m[x]]

EmptyMap == [x \in {} |-> 0]

(***************************************************************************)
(* Context                                                                 *)
(***************************************************************************)
\* Context keys created with createContextKey; identity is the symbol.
Keys == {"A", "B"}

\* key.app, key.server and key.request, the keys a RequestContext is
\* seeded with (context.ts:378-383, app.ts:172-177).
RequestKeys == {"app", "server", "request"}

\* Bounds of the model.
MaxDepth == 5       \* nested #resolve frames before the runtime's stack overflows
MaxXf == 1          \* derive / replace transforms stacked on one value
MaxDerive == 2      \* derive calls on one key where derive chains are followed
MaxCalls == 2       \* construct() / singleton() calls made on the container
MaxListeners == 1   \* callbacks attached with resolved(key, callback)
MaxAssigned == 2    \* assignments made while a callback or watcher is attached

\* const defaultInstances = new Map(): never written anywhere in the source.
defaultInstances == EmptyMap

NoErr == [kind |-> "none", chain |-> <<>>]
Err(kind, chain) == [kind |-> kind, chain |-> chain]

\* The errors that are ResolutionError instances ("app" is an error a
\* resolver throws itself, "overflow" the runtime's RangeError).
ResolutionErrors == {"circular", "noresolver", "immutable", "exists", "underivable"}

\* A value is an object: src, key and n say where it was made (which makes
\* the objects of two invocations differ), xf the transforms applied to it
\* in order (the n-th transform given for it to derive or replace is n),
\* promise whether it is a plain value ("no"), a promise its maker returned
\* ("own") or the promise #set chained on one ("then"); err is the error a
\* promise rejects with ("none" when it fulfils).
NoVal == [src |-> "none", key |-> "-", n |-> 0, xf |-> <<>>, promise |-> "no", err |-> "none"]

\* The value a caller passes to set().
SetValues ==
    {[src |-> "set", key |-> "-", n |-> 1, xf |-> <<>>, promise |-> "no", err |-> "none"]}

\* A resolver: the keys it gets through the scoped view it is handed, in
\* order, then either throws an error of its own or returns a fresh value
\* (a promise when async); xf lists the derive transforms wrapped around
\* it, innermost first.
ResolverBodies == {<<>>} \cup {<<k>> : k \in Keys}

Resolvers ==
    {[body |-> b, fails |-> FALSE, async |-> FALSE, xf |-> <<>>] : b \in ResolverBodies}
    \cup {[body |-> <<>>, fails |-> TRUE, async |-> FALSE, xf |-> <<>>],
          [body |-> <<>>, fails |-> FALSE, async |-> TRUE, xf |-> <<>>]}

\* The object one invocation of key's resolver returns: a new object per
\* invocation (n is the invocation's number).
NewValue(key, n, r) ==
    [src |-> "resolver", key |-> key, n |-> n, xf |-> r.xf,
     promise |-> IF r.async THEN "own" ELSE "no", err |-> "none"]

\* Class types handed to construct() and singleton(); identity is the class.
Types == {"T", "U"}

\* The other calls a resolver makes on its scoped view, as elements of a
\* body: inter.replace(key, callback) and await inter.construct(type).
replaceCall(key) == "replace " \o key

constructCall(type) == "construct " \o type

ReplaceCalls == {replaceCall(k) : k \in Keys}

ConstructCalls == {constructCall(t) : t \in Types}

\* The key or type a call of a body is made for.
Callee(e) ==
    IF e \in ReplaceCalls THEN CHOOSE k \in Keys : replaceCall(k) = e
    ELSE IF e \in ConstructCalls THEN CHOOSE t \in Types : constructCall(t) = e
    ELSE e

\* A resolver that awaits inter.singleton(type) and returns a promise.
TypeResolvers ==
    {[body |-> <<t>>, fails |-> FALSE, async |-> TRUE, xf |-> <<>>] : t \in Types}

\* What the resolver hands back after its body gave awaited: the promise of
\* an async resolver rejects with the error an awaited call rejected with.
Returned(key, n, r, awaited) ==
    IF awaited.err = "none" THEN NewValue(key, n, r)
    ELSE [NewValue(key, n, r) EXCEPT !.err = awaited.err, !.xf = <<>>]

\* The instance new child(...args) makes: the n-th instance of the type.
NewInstance(type, n) ==
    [src |-> "new", key |-> type, n |-> n, xf |-> <<>>, promise |-> "no", err |-> "none"]

\* What callback(old) of replace returns: a value made from the old one.
Transform(v) ==
    [v EXCEPT !.xf = Append(@, Len(@) + 1), !.promise = IF @ = "no" THEN "no" ELSE "own"]

\* The invocation counter of a resolver: 0, 1, or 2 for "more than once".
Invoked(n) == IF n < 2 THEN n + 1 ELSE 2

\* The container: #instances, #resolvers, #immutables, #classes, the
\* declared wants and the counters.
CtxState ==
    [inst |-> instances, res |-> resolvers, imm |-> immutables, calls |-> calls,
     cls |-> classes, built |-> built, wants |-> wants,
     lis |-> listeners, watch |-> watching, nset |-> assigned,
     thens |-> thens, imq |-> immediates, log |-> fired]

\* Outcome of a call: the container state it leaves, and a value or an error.
Ok(st, v) == [st |-> st, ok |-> TRUE, val |-> v, err |-> NoErr]
Fail(st, e) == [st |-> st, ok |-> FALSE, val |-> NoVal, err |-> e]

\* Context.has
Has(st, key) ==
    key \in DOMAIN st.inst \/ key \in DOMAIN st.res \/ key \in DOMAIN defaultInstances

\* resolved() answering like has().
ResolvedAsHas(st, key) == Has(st, key)

\* Context.resolved(key) without a callback
Resolved(st, key) == key \in DOMAIN st.inst

\* A call of a callback attached with resolved(key, cb) (kind "listener")
\* or the emit of 'resolved' (kind "resolved", cbs the callbacks that were
\* attached to the key when #set ran), for the id-th assignment.
Event(kind, key, cb, id, val, cbs) ==
    [kind |-> kind, key |-> key, cb |-> cb, id |-> id, val |-> val, cbs |-> cbs]

\* The calls listener(inst, inter) of #set's loop, in the order of
\* this.listeners(key).
ListenerCalls(key, cbs, id, val) ==
    [i \in DOMAIN cbs |-> Event("listener", key, cbs[i], id, val, <<>>)]

\* Context.#set: caches the instance and returns it; a promise is replaced
\* by the promise instance.then(...) makes, and that one is cached and
\* returned.  The callbacks attached to the key are called at once with a
\* plain value, and from the then-callback with a promise's value (never,
\* when the promise rejects); the emit of 'resolved' is given to
\* setImmediate.  An emit nobody listens to and a then-callback with no
\* callback to call do nothing and are left out; callbacks do not throw.
SetInternal(st, key, instance) ==
    LET stored == IF instance.promise = "no" THEN instance
                  ELSE [instance EXCEPT !.promise = "then"]
        cbs == IF key \in DOMAIN st.lis THEN st.lis[key] ELSE <<>>
        id == st.nset + 1
        called == IF cbs = <<>> THEN st
                  ELSE IF instance.promise = "no"
                  THEN [st EXCEPT !.log = @ \o ListenerCalls(key, cbs, id, stored)]
                  ELSE IF instance.err = "none"
                  THEN [st EXCEPT !.thens = Append(@, Event("then", key, 0, id, stored, cbs))]
                  ELSE st
        scheduled == IF st.watch
                     THEN [called EXCEPT !.imq = Append(@, Event("resolved", key, 0, id, stored, cbs))]
                     ELSE called
    IN  Ok([scheduled EXCEPT !.inst = MapSet(st.inst, key, stored),
                             !.nset = IF st.watch \/ cbs # <<>> THEN id ELSE @],
           stored)

\* Context.#resolve(key, references); references is an insertion-ordered Set,
\* kept as a sequence without repetition.  RunBody is the resolver's code:
\* inter.get(body[i]) for each i, where inter = #createInterface(references
\* + key); an error raised by a get propagates out of the resolver.
RECURSIVE Resolve(_, _, _, _)
RECURSIVE RunBody(_, _, _, _, _)
RECURSIVE SingletonInternal(_, _, _, _)
RECURSIVE ConstructInternal(_, _, _, _)
RECURSIVE WantsFirst(_, _, _, _, _)
RECURSIVE WantsSecond(_, _, _, _, _)
RECURSIVE ScopedReplace(_, _, _)

\* #resolve without the look into #instances (context.ts:190-192 left out).
ResolveNoCache(st, key, references, depth) ==
    IF depth > MaxDepth THEN Fail(st, Err("overflow", Append(references, key)))
    ELSE IF InSeq(key, references)
        THEN Fail(st, Err("circular", Append(references, key)))
    ELSE IF key \notin DOMAIN st.res
        THEN Fail(st, Err("noresolver", Append(references, key)))
    ELSE Only({ IF ~b.ok THEN b
                ELSE IF r.fails THEN Fail(b.st, Err("app", <<key>>))
                ELSE SetInternal(b.st, key, Returned(key, Invoked(st.calls[key]), r, b.val)) :
                r \in {st.res[key]},
                b \in {RunBody([st EXCEPT !.calls[key] = Invoked(@)], st.res[key].body, 1,
                               Append(references, key), depth + 1)} })

\* #resolve without the test of the reference set (context.ts:193-199 left out).
ResolveNoCycleCheck(st, key, references, depth) ==
    IF depth > MaxDepth THEN Fail(st, Err("overflow", Append(references, key)))
    ELSE IF key \in DOMAIN st.inst THEN Ok(st, st.inst[key])
    ELSE IF key \notin DOMAIN st.res
        THEN Fail(st, Err("noresolver", Append(references, key)))
    ELSE Only({ IF ~b.ok THEN b
                ELSE IF r.fails THEN Fail(b.st, Err("app", <<key>>))
                ELSE SetInternal(b.st, key, Returned(key, Invoked(st.calls[key]), r, b.val)) :
                r \in {st.res[key]},
                b \in {RunBody([st EXCEPT !.calls[key] = Invoked(@)], st.res[key].body, 1,
                               Append(references, key), depth + 1)} })

Resolve(st, key, references, depth) ==
    IF depth > MaxDepth THEN Fail(st, Err("overflow", Append(references, key)))
    ELSE IF key \in DOMAIN st.inst THEN Ok(st, st.inst[key])
    ELSE IF InSeq(key, references)
        THEN Fail(st, Err("circular", Append(references, key)))
    ELSE IF key \notin DOMAIN st.res
        THEN IF key \in DOMAIN defaultInstances
             THEN Ok([st EXCEPT !.inst = MapSet(st.inst, key, defaultInstances[key])],
                     defaultInstances[key])
             ELSE Fail(st, Err("noresolver", Append(references, key)))
    ELSE Only({ IF ~b.ok THEN b
                ELSE IF r.fails THEN Fail(b.st, Err("app", <<key>>))
                ELSE SetInternal(b.st, key, Returned(key, Invoked(st.calls[key]), r, b.val)) :
                r \in {st.res[key]},
                b \in {RunBody([st EXCEPT !.calls[key] = Invoked(@)], st.res[key].body, 1,
                               Append(references, key), depth + 1)} })

\* A class in the body is await inter.singleton(type), which #singleton
\* runs with the resolver's reference set (context.ts:237-239); when it
\* rejects, the async resolver's promise rejects with the same error.
\* inter.construct(type) is #construct with the same set
\* (context.ts:234-236), and inter.replace(key, callback) is the
\* container's own replace (context.ts:230-233), whose error is thrown
\* into the resolver.
RunBody(st, body, i, references, depth) ==
    IF i > Len(body) THEN Ok(st, NoVal)
    ELSE IF body[i] \in Types
        THEN Only({ IF ~s.ok THEN Ok(s.st, [NoVal EXCEPT !.err = s.err.kind])
                    ELSE RunBody(s.st, body, i + 1, references, depth) :
                    s \in {SingletonInternal(st, body[i], references, depth)} })
    ELSE IF body[i] \in ConstructCalls
        THEN Only({ IF ~c.ok THEN Ok(c.st, [NoVal EXCEPT !.err = c.err.kind])
                    ELSE RunBody(c.st, body, i + 1, references, depth) :
                    c \in {ConstructInternal(st, Callee(body[i]), references, depth)} })
    ELSE IF body[i] \in ReplaceCalls
        THEN Only({ IF ~p.ok THEN p
                    ELSE RunBody(p.st, body, i + 1, references, depth) :
                    p \in {ScopedReplace(st, Callee(body[i]), depth)} })
    ELSE Only({ IF ~g.ok THEN g
                ELSE RunBody(g.st, body, i + 1, references, depth) :
                g \in {Resolve(st, body[i], references, depth)} })

\* replace of the scoped view: this.replace(_key, callback), i.e.
\* Context.replace run inside the resolver's frame.  It resolves the old
\* value with new Set(), whatever set the view was made with.
ScopedReplace(st, key, depth) ==
    IF key \in st.imm THEN Fail(st, Err("immutable", <<key>>))
    ELSE Only({ IF ~old.ok THEN old ELSE SetInternal(old.st, key, Transform(old.val)) :
                old \in {Resolve(st, key, <<>>, depth)} })

\* await Promise.resolve(v) on what a lookup gave: a rejected promise
\* throws its error into the awaiting function.
Awaited(out) ==
    Only({ IF o.ok /\ o.val.err # "none" THEN Fail(o.st, Err(o.val.err, <<o.val.key>>))
           ELSE o : o \in {out} })

\* A declared want (context.ts:393-455): the decorator used, whether a
\* parent container is named before the target (the model's parent is
\* key.app of an App, which the App binds to itself, app.ts:297), and the
\* key or class wanted.
Want(kind, via, target) == [kind |-> kind, via |-> via, target |-> target]

\* The reference set a want is resolved with: the caller's plus the type
\* for a want of this container; a want rooted at a parent goes through the
\* parent's public get / singleton, which start from an empty set
\* (context.ts:106, 161).
WantReferences(w, references) == IF w.via = "own" THEN references ELSE <<>>

\* Context.#construct(type, args, references).  The awaits inside are taken
\* with no other call of the container running in between.
ConstructInternal(st, type, references, depth) ==
    IF depth > MaxDepth THEN Fail(st, Err("overflow", Append(references, type)))
    ELSE IF InSeq(type, references)
        THEN Fail(st, Err("circular", Append(references, type)))
    ELSE Only({ IF ~first.ok THEN first
                ELSE Only({ IF ~second.ok THEN second
                            ELSE Ok([second.st EXCEPT !.built[type] = @ + 1],
                                    NewInstance(type, second.st.built[type] + 1)) :
                            second \in {WantsSecond([first.st EXCEPT !.cls = @ \cup {type}],
                                                    type, 1, refs, depth + 1)} }) :
                refs \in {Append(references, type)},
                first \in {IF type \in st.cls THEN Ok(st, NoVal)
                           ELSE WantsFirst(st, type, 1, Append(references, type), depth + 1)} })

\* The first loop over the wants (context.ts:258-297), run when the type
\* has no prepared subclass yet: 'context' and 'singleton' wants.
WantsFirst(st, type, i, refs, depth) ==
    IF i > Len(st.wants[type]) THEN Ok(st, NoVal)
    ELSE Only({ IF ~r.ok THEN r ELSE WantsFirst(r.st, type, i + 1, refs, depth) :
                r \in { IF w.kind = "context"
                        THEN Awaited(Resolve(st, w.target, WantReferences(w, refs), depth))
                        ELSE IF w.kind = "singleton"
                        THEN SingletonInternal(st, w.target, WantReferences(w, refs), depth)
                        ELSE Ok(st, NoVal) : w \in {st.wants[type][i]} } })

\* The second loop (context.ts:302-328): 'construct' wants, which the code
\* resolves with #singleton / parent.singleton as well.
WantsSecond(st, type, i, refs, depth) ==
    IF i > Len(st.wants[type]) THEN Ok(st, NoVal)
    ELSE Only({ IF ~r.ok THEN r ELSE WantsSecond(r.st, type, i + 1, refs, depth) :
                r \in { IF w.kind = "construct"
                        THEN SingletonInternal(st, w.target, WantReferences(w, refs), depth)
                        ELSE Ok(st, NoVal) : w \in {st.wants[type][i]} } })

\* Context.#singleton(type, args, references)
SingletonInternal(st, type, references, depth) ==
    IF type \in DOMAIN st.inst THEN Ok(st, st.inst[type])
    ELSE Only({ IF ~c.ok THEN c ELSE SetInternal(c.st, type, c.val) :
                c \in {ConstructInternal(st, type, references, depth)} })

\* Context.construct(type)
ConstructOutcome(st, type) == ConstructInternal(st, type, <<>>, 1)

\* Context.singleton(type), run to its end with no other call in between.
SingletonOutcome(st, type) == SingletonInternal(st, type, <<>>, 1)

\* Context.get(key): #resolve with a new, empty reference set.
GetOutcome(st, key) == Resolve(st, key, <<>>, 1)

\* register() without the test of has(key) before the key is made immutable
\* (context.ts:73-76 left out).
RegisterOutcomeNoExistsCheck(st, key, resolver, immutable) ==
    IF key \in st.imm THEN Fail(st, Err("immutable", <<key>>))
    ELSE Ok([st EXCEPT !.res = MapSet(st.res, key, resolver),
                       !.imm = IF immutable THEN @ \cup {key} ELSE @,
                       !.calls[key] = 0], NoVal)

\* register() dropping the value cached for the key, so that the resolver
\* it registers is the one the next get runs.
RegisterOutcomeInvalidates(st, key, resolver, immutable) ==
    IF key \in st.imm THEN Fail(st, Err("immutable", <<key>>))
    ELSE IF immutable /\ Has(st, key) THEN Fail(st, Err("exists", <<key>>))
    ELSE Ok([st EXCEPT !.res = MapSet(st.res, key, resolver),
                       !.imm = IF immutable THEN @ \cup {key} ELSE @,
                       !.inst = [k \in DOMAIN st.inst \ {key} |-> st.inst[k]],
                       !.calls[key] = 0], NoVal)

\* Context.register(key, resolver, immutable)
RegisterOutcome(st, key, resolver, immutable) ==
    IF key \in st.imm THEN Fail(st, Err("immutable", <<key>>))
    ELSE IF immutable /\ Has(st, key) THEN Fail(st, Err("exists", <<key>>))
    ELSE Ok([st EXCEPT !.res = MapSet(st.res, key, resolver),
                       !.imm = IF immutable THEN @ \cup {key} ELSE @,
                       !.calls[key] = 0], NoVal)

\* derive() with the wrapper calling the transform before the original
\* resolver instead of after it.
DeriveOutcomeTransformFirst(st, key) ==
    IF key \in st.imm THEN Fail(st, Err("immutable", <<key>>))
    ELSE IF key \notin DOMAIN st.res THEN Fail(st, Err("underivable", <<key>>))
    ELSE Ok([st EXCEPT !.res[key].xf = <<Len(@) + 1>> \o @, !.calls[key] = 0], NoVal)

\* Context.derive(key, resolver): wraps the resolver registered for key; the
\* wrapper calls the resolver there was and then the transform, on its
\* value or on what its promise fulfils with.
DeriveOutcome(st, key) ==
    IF key \in st.imm THEN Fail(st, Err("immutable", <<key>>))
    ELSE IF key \notin DOMAIN st.res THEN Fail(st, Err("underivable", <<key>>))
    ELSE Ok([st EXCEPT !.res[key].xf = Append(@, Len(@) + 1), !.calls[key] = 0], NoVal)

\* set() without the test of #immutables (context.ts:110-112 left out).
SetOutcomeNoImmutableCheck(st, key, instance, immutable) ==
    IF immutable /\ Has(st, key) THEN Fail(st, Err("exists", <<key>>))
    ELSE SetInternal([st EXCEPT !.imm = IF immutable THEN @ \cup {key} ELSE @],
                     key, instance)

\* Context.set(key, instance, immutable)
SetOutcome(st, key, instance, immutable) ==
    IF key \in st.imm THEN Fail(st, Err("immutable", <<key>>))
    ELSE IF immutable /\ Has(st, key) THEN Fail(st, Err("exists", <<key>>))
    ELSE SetInternal([st EXCEPT !.imm = IF immutable THEN @ \cup {key} ELSE @],
                     key, instance)

\* replace() without its call of #set (context.ts:130 left out).
ReplaceOutcomeNotStored(st, key) ==
    IF key \in st.imm THEN Fail(st, Err("immutable", <<key>>))
    ELSE Only({ IF ~old.ok THEN old ELSE Ok(old.st, Transform(old.val)) :
                old \in {Resolve(st, key, <<>>, 1)} })

\* Context.replace(key, callback)
ReplaceOutcome(st, key) ==
    IF key \in st.imm THEN Fail(st, Err("immutable", <<key>>))
    ELSE Only({ IF ~old.ok THEN old ELSE SetInternal(old.st, key, Transform(old.val)) :
                old \in {Resolve(st, key, <<>>, 1)} })

\* The operation's effect on the container; last keeps its error, if any.
CommitState(out) ==
    \E o \in {out} :
        /\ instances' = o.st.inst
        /\ resolvers' = o.st.res
        /\ immutables' = o.st.imm
        /\ calls' = o.st.calls
        /\ classes' = o.st.cls
        /\ built' = o.st.built
        /\ listeners' = o.st.lis
        /\ watching' = o.st.watch
        /\ assigned' = o.st.nset
        /\ thens' = o.st.thens
        /\ immediates' = o.st.imq
        /\ fired' = o.st.log
        /\ last' = o.err
        /\ UNCHANGED <<wants, asyncVars, routerVars, appVars>>

Commit(out) == CommitState(out) /\ UNCHANGED <<pending, returned>>

Get(key) == Commit(GetOutcome(CtxState, key))

Register(key, resolver, immutable) ==
    Commit(RegisterOutcome(CtxState, key, resolver, immutable))

Derive(key) == Commit(DeriveOutcome(CtxState, key))

Set(key, instance, immutable) ==
    Commit(SetOutcome(CtxState, key, instance, immutable))

Replace(key) ==
    \E out \in {ReplaceOutcome(CtxState, key)} :
        /\ out.ok => Len(out.val.xf) <= MaxXf
        /\ Commit(out)

CtxInit ==
    /\ instances = EmptyMap
    /\ resolvers = EmptyMap
    /\ immutables = {}
    /\ calls = [k \in Keys \cup RequestKeys |-> 0]
    /\ last = NoErr

CtxNext ==
    \/ \E k \in Keys : Get(k)
    \/ \E k \in Keys, r \in Resolvers, i \in BOOLEAN : r.body # <<k>> /\ Register(k, r, i)
    \/ \E k \in Keys :
          /\ k \in DOMAIN resolvers => Len(resolvers[k].xf) < MaxXf
          /\ Derive(k)
    \/ \E k \in Keys, v \in SetValues, i \in BOOLEAN : Set(k, v, i)
    \/ \E k \in Keys : Replace(k)

(***************************************************************************)
(* Context: construct and singleton.  A class is declared with at most one *)
(* want; singleton() is taken in two steps, its synchronous part up to     *)
(* `await this.#construct(...)` and its resumption, so that calls overlap. *)
(***************************************************************************)
WantChoices ==
    {<<Want(k, v, t)>> : k \in {"singleton", "construct"}, v \in {"own", "parent"}, t \in Types}
    \cup {<<Want("context", v, "A")>> : v \in {"own", "parent"}}

\* A construct() / singleton() call: what its promise settles with, and the
\* singleton() calls on the same type that were suspended when it began.
Call(id, op, type, out, overlaps) ==
    [id |-> id, op |-> op, type |-> type, ok |-> out.ok, val |-> out.val,
     err |-> out.err, overlaps |-> overlaps]

Started == Len(pending) + Len(returned)

Suspended(type) == {pending[i].id : i \in {j \in DOMAIN pending : pending[j].type = type}}

\* The @context / @singleton / @construct decorator on a property of the
\* class, applied when the class is defined.
Declare(type, ws) ==
    /\ wants[type] = <<>> /\ Started = 0 /\ resolvers = EmptyMap
    /\ wants' = [wants EXCEPT ![type] = ws]
    /\ UNCHANGED <<instances, resolvers, immutables, calls, last, classes, built,
                   pending, returned, eventVars, asyncVars, routerVars, appVars>>

\* singleton(type) up to its first suspension: the cached instance is
\* returned at once; otherwise #construct runs and #singleton waits for it
\* at its await, with the instance (or the error) in hand.
SingletonBegin(type) ==
    /\ Started < MaxCalls
    /\ IF type \in DOMAIN instances
       THEN /\ CommitState(Ok(CtxState, instances[type]))
            /\ returned' = Append(returned,
                    Call(Started + 1, "singleton", type,
                         Ok(CtxState, instances[type]), Suspended(type)))
            /\ UNCHANGED pending
       ELSE \E c \in {ConstructOutcome(CtxState, type)} :
                /\ CommitState(c)
                /\ pending' = Append(pending,
                        Call(Started + 1, "singleton", type, c, Suspended(type)))
                /\ UNCHANGED returned

\* A suspended singleton() resumes: return this.#set(type, instance), or
\* the rejection of #construct thrown on.
SingletonEnd(i) ==
    \E call \in {pending[i]} :
        /\ CommitState(IF call.ok THEN SetInternal(CtxState, call.type, call.val)
                       ELSE Fail(CtxState, call.err))
        /\ pending' = SubSeq(pending, 1, i - 1) \o SubSeq(pending, i + 1, Len(pending))
        /\ returned' = Append(returned, call)

\* construct(type), run to its end.
Construct(type) ==
    /\ Started < MaxCalls
    /\ \E out \in {ConstructOutcome(CtxState, type)} :
        /\ CommitState(out)
        /\ returned' = Append(returned, Call(Started + 1, "construct", type, out, {}))
        /\ UNCHANGED pending

(***************************************************************************)
(* Context: chains of derive.  Resolvers without lookups are registered on *)
(* keys that have none, wrapped by derive, and resolved; set() binds a key *)
(* to a value directly.                                                    *)
(***************************************************************************)
DeriveResolvers == {r \in Resolvers : r.body = <<>>}

DeriveNext ==
    \/ \E k \in Keys, r \in DeriveResolvers :
          k \notin DOMAIN resolvers /\ Register(k, r, FALSE)
    \/ \E k \in Keys :
          /\ k \in DOMAIN resolvers => Len(resolvers[k].xf) < MaxDerive
          /\ Derive(k)
    \/ \E k \in Keys : Get(k)
    \/ \E k \in Keys, v \in SetValues : k \notin DOMAIN instances /\ Set(k, v, FALSE)

(***************************************************************************)
(* Context: resolvers that call back into the container.  Each resolver    *)
(* makes one call on the scoped view it is handed (get, replace, construct *)
(* or singleton), for any key or class, its own included; a class may want *)
(* a key of the container.                                                 *)
(***************************************************************************)
ScopedResolvers ==
    {[body |-> <<e>>, fails |-> FALSE, async |-> FALSE, xf |-> <<>>] :
        e \in Keys \cup ReplaceCalls}
    \cup {[body |-> <<e>>, fails |-> FALSE, async |-> TRUE, xf |-> <<>>] :
        e \in Types \cup ConstructCalls}

ScopedWants == {<<Want("context", "own", k)>> : k \in Keys}

ScopedNext ==
    \/ \E t \in Types, ws \in ScopedWants : Declare(t, ws)
    \/ \E k \in Keys, r \in ScopedResolvers :
          k \notin DOMAIN resolvers /\ Register(k, r, FALSE)
    \/ \E k \in Keys : Get(k)

(***************************************************************************)
(* Context: every operation of the container, made on one key and one     *)
(* class: register, derive, set, replace and get on the key, construct and *)
(* singleton on the class.                                                 *)
(***************************************************************************)
EveryNext ==
    \/ \E r \in Resolvers, i \in BOOLEAN : r.body # <<"A">> /\ Register("A", r, i)
    \/ \E v \in SetValues, i \in BOOLEAN : Set("A", v, i)
    \/ Get("A")
    \/ /\ "A" \in DOMAIN resolvers => Len(resolvers["A"].xf) < MaxXf
       /\ Derive("A")
    \/ Replace("A")
    \/ Construct("T")
    \/ SingletonBegin("T")
    \/ \E i \in DOMAIN pending : SingletonEnd(i)

(***************************************************************************)
(* Context: asynchronous resolvers.  An async resolver hands back its      *)
(* promise at once; it either asks its scoped view for its dependency      *)
(* before handing it back, or awaits something else first and asks when it *)
(* is resumed.  #set caches the promise then() makes on the resolver's.    *)
(* A promise resolved with another promise settles as that one does.       *)
(***************************************************************************)
MaxGets == 2    \* get() calls made on the container

AsyncResolvers ==
    {[body |-> b, fails |-> FALSE, async |-> TRUE, xf |-> <<>>, suspends |-> s] :
        b \in ResolverBodies, s \in BOOLEAN}

\* A promise: pending, fulfilled or rejected (err the error's kind), and the
\* promise it was resolved with and now follows (0 when none).
Promise(state, follows, err) == [state |-> state, follows |-> follows, err |-> err]

PendingPromise == Promise("pending", 0, "none")

\* An async resolver parked at its await: its key, the reference set of
\* the scoped view it holds and the promise it handed back.
Parked(key, references, promise) ==
    [key |-> key, references |-> references, promise |-> promise]

\* The container as the asynchronous walk sees it.
AsyncState == [res |-> resolvers, cache |-> cache, promises |-> promises, parked |-> parked]

AsyncOk(st, p) == [st |-> st, ok |-> TRUE, val |-> p, err |-> NoErr]

AsyncFail(st, e) == [st |-> st, ok |-> FALSE, val |-> 0, err |-> e]

RECURSIVE ResolveAsync(_, _, _)
RECURSIVE ResolverBody(_, _, _, _)

\* The rest of an async resolver from `return inter.get(dep)` on: p is the
\* promise of the async function, which rejects with what get throws and
\* is resolved with the promise get returns.
ResolverBody(st, body, references, p) ==
    IF body = <<>> THEN [st EXCEPT !.promises[p] = Promise("fulfilled", 0, "none")]
    ELSE Only({ IF ~g.ok
                THEN [g.st EXCEPT !.promises[p] = Promise("rejected", 0, g.err.kind)]
                ELSE [g.st EXCEPT !.promises[p] = Promise("pending", g.val, "none")] :
                g \in {ResolveAsync(st, body[1], references)} })

\* Context.#resolve(key, references) where resolvers are async functions:
\* the look into #instances comes first, then the test of the reference
\* set; resolver(inter) gives promise p, and #set caches and returns
\* p.then(...), a new promise that settles as p does.
ResolveAsync(st, key, references) ==
    IF key \in DOMAIN st.cache THEN AsyncOk(st, st.cache[key])
    ELSE IF InSeq(key, references)
        THEN AsyncFail(st, Err("circular", Append(references, key)))
    ELSE IF key \notin DOMAIN st.res
        THEN AsyncFail(st, Err("noresolver", Append(references, key)))
    ELSE Only({ Only({ AsyncOk([ran EXCEPT
                                    !.promises = Append(@, Promise("pending", p, "none")),
                                    !.cache = MapSet(@, key, Len(ran.promises) + 1)],
                               Len(ran.promises) + 1) :
                       ran \in { IF r.suspends
                                 THEN [made EXCEPT !.parked = @ \cup {Parked(key, refs, p)}]
                                 ELSE ResolverBody(made, r.body, refs, p) } }) :
                r \in {st.res[key]},
                refs \in {Append(references, key)},
                made \in {[st EXCEPT !.promises = Append(@, PendingPromise)]},
                p \in {Len(st.promises) + 1} })

CommitAsync(st) ==
    /\ promises' = st.promises
    /\ parked' = st.parked
    /\ cache' = st.cache

\* Context.get(key) on the container: #resolve with a new, empty set.
AsyncGet(key) ==
    /\ Len(asked) < MaxGets
    /\ \E out \in {ResolveAsync(AsyncState, key, <<>>)} :
          /\ CommitAsync(out.st)
          /\ asked' = Append(asked, [key |-> key, ok |-> out.ok, promise |-> out.val,
                                     err |-> out.err.kind])
    /\ UNCHANGED <<instances, resolvers, immutables, calls, last, typeVars, eventVars,
                   routerVars, appVars>>

\* A parked resolver is resumed by the event loop and goes on with its body.
Resume(t) ==
    /\ t \in parked
    /\ CommitAsync(ResolverBody([AsyncState EXCEPT !.parked = @ \ {t}],
                                resolvers[t.key].body, t.references, t.promise))
    /\ UNCHANGED <<instances, resolvers, immutables, calls, last, typeVars, eventVars,
                   asked, routerVars, appVars>>

\* The reaction job of a promise resolved with a promise that has settled:
\* it settles the same way.
Adopt(p) ==
    /\ p \in DOMAIN promises
    /\ promises[p].state = "pending"
    /\ promises[p].follows # 0
    /\ promises[promises[p].follows].state # "pending"
    /\ promises' = [promises EXCEPT ![p] = [promises[promises[p].follows]
                                                EXCEPT !.follows = promises[p].follows]]
    /\ UNCHANGED <<instances, resolvers, immutables, calls, last, typeVars, eventVars,
                   parked, cache, asked, routerVars, appVars>>

AsyncInit ==
    /\ promises = <<>>
    /\ parked = {}
    /\ cache = EmptyMap
    /\ asked = <<>>

\* Resolvers are registered before the first get() is made.
AsyncNext ==
    \/ \E k \in Keys, r \in AsyncResolvers :
          k \notin DOMAIN resolvers /\ asked = <<>> /\ Register(k, r, FALSE)
    \/ \E k \in Keys : AsyncGet(k)
    \/ \E t \in parked : Resume(t)
    \/ \E p \in DOMAIN promises : Adopt(p)

\* The event loop runs every job it holds: a parked resolver is resumed and
\* a settled promise's reactions are run.
AsyncFairness ==
    /\ WF_vars(\E t \in parked : Resume(t))
    /\ WF_vars(\E p \in DOMAIN promises : Adopt(p))

(***************************************************************************)
(* Context: the container of one request.  The constructor seeds it;      *)
(* setup listeners, middleware and the handler then work on the three      *)
(* seeded keys (the trustedProxy listener sets key.request).               *)
(***************************************************************************)
\* The App, the Server and the Request handed to the constructor.
SeedValue(k) ==
    [src |-> "seed", key |-> k, n |-> 1, xf |-> <<>>, promise |-> "no", err |-> "none"]

\* A constructor that sets the three keys without the immutable flag.
RequestContextAllMutable(st) ==
    Only({ Only({ SetOutcome(b.st, "request", SeedValue("request"), FALSE) :
                  b \in {SetOutcome(a.st, "server", SeedValue("server"), FALSE)} }) :
           a \in {SetOutcome(st, "app", SeedValue("app"), FALSE)} })

\* RequestContext.constructor: set(key.app, app, true),
\* set(key.server, server, true), set(key.request, request).
RequestContextOutcome(st) ==
    Only({ Only({ SetOutcome(b.st, "request", SeedValue("request"), FALSE) :
                  b \in {SetOutcome(a.st, "server", SeedValue("server"), TRUE)} }) :
           a \in {SetOutcome(st, "app", SeedValue("app"), TRUE)} })

NewRequestContext ==
    /\ instances = EmptyMap
    /\ Commit(RequestContextOutcome(CtxState))

Seeded == "app" \in DOMAIN instances

RequestNext ==
    \/ NewRequestContext
    \/ \E k \in RequestKeys, v \in SetValues, i \in BOOLEAN : Seeded /\ Set(k, v, i)
    \/ \E k \in RequestKeys, r \in Resolvers, i \in BOOLEAN : Seeded /\ Register(k, r, i)
    \/ \E k \in RequestKeys :
          /\ Seeded
          /\ k \in DOMAIN resolvers => Len(resolvers[k].xf) < MaxXf
          /\ Derive(k)
    \/ \E k \in RequestKeys : Seeded /\ Replace(k)
    \/ \E k \in RequestKeys : Seeded /\ Get(k)

(***************************************************************************)
(* Context: resolution listeners and the 'resolved' notification.          *)
(***************************************************************************)
\* Context.resolved(key, callback): this.on(key, callback); the callback is
\* the cb-th one attached to the container.
ResolvedCallback(st, key) ==
    LET cb == 1 + Len(st.lis["A"]) + Len(st.lis["B"])
    IN  Ok([st EXCEPT !.lis[key] = Append(@, cb)], NoVal)

\* container.on('resolved', ...), the EventEmitter's own method.
WatchOutcome(st) == Ok([st EXCEPT !.watch = TRUE], NoVal)

\* The promise of the i-th waiting then-callback fulfils and the callback
\* runs: the callbacks #set found on the key are called with its value.
ThenOutcome(st, i) ==
    LET t == st.thens[i]
    IN  Ok([st EXCEPT !.thens = SubSeq(@, 1, i - 1) \o SubSeq(@, i + 1, Len(@)),
                      !.log = @ \o ListenerCalls(t.key, t.cbs, t.id, t.val)], NoVal)

\* The container as the callbacks of #set(key, instance) find it when they
\* are called: with a plain value the loop that calls them runs before
\* this.#instances.set(key, instance); with a promise they are called from
\* the then-callback, after #set has cached the promise then() made.
SeenByListener(st, key, instance) ==
    IF instance.promise = "no" THEN st
    ELSE [st EXCEPT !.inst = MapSet(st.inst, key, [instance EXCEPT !.promise = "then"])]

\* inter.get(key) in a callback: inter is #createInterface(new Set([key])).
ListenerGets(st, key, instance) == Resolve(SeenByListener(st, key, instance), key, <<key>>, 1)

\* The event loop runs the oldest setImmediate callback: emit('resolved').
ImmediateOutcome(st) ==
    Ok([st EXCEPT !.imq = Tail(@), !.log = Append(@, Head(st.imq))], NoVal)

ResolvedWith(key) == Commit(ResolvedCallback(CtxState, key))

Watch == Commit(WatchOutcome(CtxState))

Then(i) == Commit(ThenOutcome(CtxState, i))

RunImmediate == immediates # <<>> /\ Commit(ImmediateOutcome(CtxState))

\* The values set() is given where listeners are followed: a plain value
\* and a promise that is still pending.
EventValues ==
    SetValues \cup {[src |-> "set", key |-> "-", n |-> 2, xf |-> <<>>, promise |-> "own", err |-> "none"]}

EventsInit ==
    /\ listeners = [k \in Keys |-> <<>>]
    /\ watching = FALSE
    /\ assigned = 0
    /\ thens = <<>>
    /\ immediates = <<>>
    /\ fired = <<>>

EventsNext ==
    \/ instances = EmptyMap /\ ~watching /\ Watch
    \/ \E k \in Keys : Len(listeners["A"]) + Len(listeners["B"]) < MaxListeners /\ ResolvedWith(k)
    \/ \E k \in Keys, v \in EventValues : assigned < MaxAssigned /\ Set(k, v, FALSE)
    \/ \E k \in Keys, a \in BOOLEAN :
          /\ k \notin DOMAIN resolvers
          /\ Register(k, [body |-> <<>>, fails |-> FALSE, async |-> a, xf |-> <<>>], FALSE)
    \/ \E k \in Keys : assigned < MaxAssigned /\ Get(k)
    \/ \E k \in Keys : assigned < MaxAssigned /\ Replace(k)
    \/ \E i \in DOMAIN thens : Then(i)
    \/ RunImmediate

TypesInit ==
    /\ classes = {}
    /\ built = [t \in Types |-> 0]
    /\ wants = [t \in Types |-> <<>>]
    /\ pending = <<>>
    /\ returned = <<>>

TypesNext ==
    \/ \E t \in Types, ws \in WantChoices : Declare(t, ws)
    \/ \E r \in TypeResolvers \cup {[body |-> <<>>, fails |-> FALSE, async |-> a, xf |-> <<>>] : a \in BOOLEAN} :
          /\ resolvers = EmptyMap /\ Started = 0
          /\ Register("A", r, FALSE)
    \/ \E t \in Types : SingletonBegin(t)
    \/ \E i \in DOMAIN pending : SingletonEnd(i)
    \/ \E t \in Types : Construct(t)

(***************************************************************************)
(* Claims about the Context.  An operation's outcome on the current        *)
(* container is the value of its Outcome operator at CtxState, which is    *)
(* what the action commits.                                                *)
(***************************************************************************)
Unbound(k) ==
    k \notin DOMAIN instances /\ k \notin DOMAIN resolvers /\ k \notin DOMAIN defaultInstances

\* The outcomes of every operation a client can start on the container.
AllOutcomes ==
    {GetOutcome(CtxState, k) : k \in Keys}
    \cup {RegisterOutcome(CtxState, k, r, i) : k \in Keys, r \in Resolvers, i \in BOOLEAN}
    \cup {DeriveOutcome(CtxState, k) : k \in Keys}
    \cup {SetOutcome(CtxState, k, v, i) : k \in Keys, v \in SetValues, i \in BOOLEAN}
    \cup {ReplaceOutcome(CtxState, k) : k \in Keys}

\* C1 as stated: whatever gets are made, the resolver registered for a key
\* is invoked at most once.
C1_InvokedAtMostOnce == \A k \in Keys : calls[k] <= 1

\* C1 amended: a get (on any key) invokes the resolver of a key at most
\* once, and an invocation that returns leaves the key cached; once a key is
\* cached no get and no replace invokes its resolver again, a get on it
\* returns the cached object itself and changes nothing, and a get on
\* another key leaves the cached object in place.  (An invocation that
\* throws caches nothing, so the next get invokes the resolver again.)
C1_Memoized ==
    \A k \in Keys :
        /\ \A j \in Keys :
              LET out == GetOutcome(CtxState, j)
              IN  /\ calls[k] = 0 => out.st.calls[k] <= 1
                  /\ (out.st.calls[k] # calls[k] /\ out.ok) => k \in DOMAIN out.st.inst
                  /\ k \in DOMAIN instances =>
                        /\ out.st.calls[k] = calls[k]
                        /\ k \in DOMAIN out.st.inst /\ out.st.inst[k] = instances[k]
        /\ k \in DOMAIN instances =>
              /\ GetOutcome(CtxState, k) = Ok(CtxState, instances[k])
              /\ \A j \in Keys : ReplaceOutcome(CtxState, j).st.calls[k] = calls[k]

\* C1 witness: A's resolver gets B, both resolvers ran once, and both values
\* (B's a chained promise) are cached.
C1_Witness ==
    /\ "A" \in DOMAIN resolvers /\ resolvers["A"].body = <<"B">>
    /\ "A" \in DOMAIN instances /\ instances["A"].src = "resolver"
    /\ "B" \in DOMAIN instances /\ instances["B"].promise = "then"
    /\ calls["A"] = 1 /\ calls["B"] = 1
    /\ last = NoErr

\* C2: a get on a whose resolver gets b whose resolver gets a (neither
\* cached) fails with the ResolutionError "Circular dependency detected:
\* a -> b -> a"; each of the two resolvers is entered once and nothing is
\* cached.
C2_CycleFails ==
    \A a \in Keys : \A b \in Keys \ {a} :
        ( /\ a \notin DOMAIN instances /\ b \notin DOMAIN instances
          /\ a \in DOMAIN resolvers /\ b \in DOMAIN resolvers
          /\ resolvers[a].body = <<b>> /\ resolvers[b].body = <<a>> )
        => LET out == GetOutcome(CtxState, a)
           IN  /\ ~out.ok
               /\ out.err = Err("circular", <<a, b, a>>)
               /\ out.err.kind \in ResolutionErrors
               /\ out.st = [CtxState EXCEPT !.calls[a] = Invoked(@),
                                            !.calls[b] = Invoked(@)]

\* C2 witness: the get on A has failed with the chain A -> B -> A after
\* entering each resolver once.
C2_Witness ==
    /\ last = Err("circular", <<"A", "B", "A">>)
    /\ calls["A"] = 1 /\ calls["B"] = 1
    /\ instances = EmptyMap

\* C3: an immutable key stays immutable under every operation, and every
\* set, register, derive and replace on it fails with ResolutionError and
\* leaves the container (cached values, resolvers) as it was; a set without
\* the immutable flag on a key that is not immutable always succeeds and
\* caches the value handed in.
C3_ImmutableIsPermanent ==
    \A k \in Keys :
        /\ k \in immutables =>
              /\ \A out \in AllOutcomes : k \in out.st.imm
              /\ \A r \in Resolvers, i \in BOOLEAN :
                    RegisterOutcome(CtxState, k, r, i) = Fail(CtxState, Err("immutable", <<k>>))
              /\ \A v \in SetValues, i \in BOOLEAN :
                    SetOutcome(CtxState, k, v, i) = Fail(CtxState, Err("immutable", <<k>>))
              /\ DeriveOutcome(CtxState, k) = Fail(CtxState, Err("immutable", <<k>>))
              /\ ReplaceOutcome(CtxState, k) = Fail(CtxState, Err("immutable", <<k>>))
              /\ "immutable" \in ResolutionErrors
        /\ k \notin immutables =>
              \A v \in SetValues :
                  LET out == SetOutcome(CtxState, k, v, FALSE)
                  IN  out.ok /\ out.val = v /\ out.st.inst[k] = v

\* C3 witness: an operation on the immutable key A, which holds the value it
\* was set to, has just failed.
C3_Witness ==
    /\ "A" \in immutables
    /\ "A" \in DOMAIN instances /\ instances["A"].src = "set"
    /\ last = Err("immutable", <<"A">>)

\* C4: for a key without cached value, resolver and default, has is false
\* and get fails with ResolutionError ("no resolver found") without invoking
\* a resolver or changing the container; resolved is true exactly for the
\* cached keys, so false for a key that only has a resolver (while has is
\* true for it).
C4_UnboundKey ==
    \A k \in Keys :
        /\ Unbound(k) =>
              /\ ~Has(CtxState, k)
              /\ ~Resolved(CtxState, k)
              /\ GetOutcome(CtxState, k) = Fail(CtxState, Err("noresolver", <<k>>))
              /\ "noresolver" \in ResolutionErrors
        /\ Resolved(CtxState, k) <=> k \in DOMAIN instances
        /\ (k \in DOMAIN resolvers /\ k \notin DOMAIN instances) =>
              Has(CtxState, k) /\ ~Resolved(CtxState, k)

\* C4 witness: a get on the unbound key B has failed and has left B unbound,
\* while A has a resolver that never ran and no cached value.
C4_Witness ==
    /\ last = Err("noresolver", <<"B">>)
    /\ Unbound("B") /\ calls["B"] = 0
    /\ "A" \in DOMAIN resolvers /\ "A" \notin DOMAIN instances /\ calls["A"] = 0

\* C17: set(key, value, true) and register(key, resolver, true) on a key
\* that has a cached value, a resolver or a default fail with
\* ResolutionError and leave the container as it was (the key is not made
\* immutable, its value and resolver stay); a register that succeeds
\* installs the resolver without invoking it: no value is cached or
\* assigned, and the installed resolver has no invocation.
C17_ImmutableOnBoundKeyFails ==
    \A k \in Keys :
        /\ Has(CtxState, k) =>
              /\ \A v \in SetValues :
                    LET out == SetOutcome(CtxState, k, v, TRUE)
                    IN  ~out.ok /\ out.err.kind \in ResolutionErrors /\ out.st = CtxState
              /\ \A r \in Resolvers :
                    LET out == RegisterOutcome(CtxState, k, r, TRUE)
                    IN  ~out.ok /\ out.err.kind \in ResolutionErrors /\ out.st = CtxState
        /\ \A r \in Resolvers, i \in BOOLEAN :
              LET out == RegisterOutcome(CtxState, k, r, i)
              IN  out.ok =>
                    /\ out.st.inst = instances /\ out.st.nset = assigned
                    /\ out.st.calls = [calls EXCEPT ![k] = 0]
                    /\ out.st.res[k] = r

\* C17 witness: a set or register with the immutable flag has just failed
\* on a key that is bound and not immutable.
C17_Witness ==
    /\ last.kind = "exists"
    /\ \E k \in Keys :
          /\ last.chain = <<k>> /\ k \notin immutables
          /\ k \in DOMAIN instances /\ k \in DOMAIN resolvers

\* What #set caches for callback(old): the value itself, or the promise
\* chained on the promise the callback returned.
StoredTransform(v) ==
    IF v.promise = "no" THEN Transform(v) ELSE [Transform(v) EXCEPT !.promise = "then"]

\* C18: replace on a key that is not immutable resolves the key as get
\* would (the same resolver invocations, at most one of the key's own),
\* caches callback(v) for the value v that get returns, and a get after
\* it returns the cached object and invokes nothing; when get would fail
\* (no value, resolver or default, or a failing resolver) replace fails
\* with the same error and caches nothing.
C18_ReplaceStoresCallbackResult ==
    \A k \in Keys \ immutables :
        LET g == GetOutcome(CtxState, k)
            out == ReplaceOutcome(CtxState, k)
        IN  /\ g.ok =>
                  /\ out.ok /\ out.val = StoredTransform(g.val)
                  /\ out.st.inst[k] = out.val
                  /\ out.st.calls = g.st.calls
                  /\ calls[k] = 0 => out.st.calls[k] <= 1
                  /\ GetOutcome(out.st, k) = Ok(out.st, out.val)
            /\ ~g.ok => out = g
            /\ Unbound(k) => out = Fail(CtxState, Err("noresolver", <<k>>))

\* C18 witness: the value that A's resolver made in its only invocation is
\* cached with one callback applied to it.
C18_Witness ==
    /\ last = NoErr
    /\ "A" \in DOMAIN instances /\ "A" \in DOMAIN resolvers
    /\ instances["A"].src = "resolver" /\ instances["A"].n = 1
    /\ resolvers["A"].xf = <<>> /\ instances["A"].xf = <<1>>
    /\ calls["A"] = 1

\* C19: on a key with no cached value, register(k, r), derive(k, f1),
\* derive(k, f2) and then get(k) all succeed when r does, and the get
\* yields the value of r's single invocation with f1 and then f2 applied to
\* it, each once (a promise when r is async, the transforms chained on it);
\* derive on a key without a resolver, also one that holds a value set
\* directly, fails with ResolutionError and changes nothing.
C19_DeriveChain ==
    \A k \in Keys \ immutables :
        /\ k \notin DOMAIN instances =>
              \A r \in DeriveResolvers :
                  LET reg == RegisterOutcome(CtxState, k, r, FALSE)
                      d1 == DeriveOutcome(reg.st, k)
                      d2 == DeriveOutcome(d1.st, k)
                      g == GetOutcome(d2.st, k)
                  IN  /\ reg.ok /\ d1.ok /\ d2.ok
                      /\ d2.st.inst = instances /\ d2.st.calls[k] = 0
                      /\ ~r.fails =>
                            /\ g.ok /\ g.val.src = "resolver" /\ g.val.n = 1
                            /\ g.val.xf = <<1, 2>>
                            /\ g.val.promise = (IF r.async THEN "then" ELSE "no")
                            /\ g.st.calls[k] = 1
                            /\ g.st.inst[k] = g.val
                      /\ r.fails => ~g.ok /\ g.err.kind = "app"
        /\ k \notin DOMAIN resolvers =>
              /\ DeriveOutcome(CtxState, k) = Fail(CtxState, Err("underivable", <<k>>))
              /\ "underivable" \in ResolutionErrors

\* C19 witness: A was registered, derived twice and resolved with a single
\* invocation of its resolver, and a derive on B, which holds a value set
\* directly and has no resolver, has just failed.
C19_Witness ==
    /\ "A" \in DOMAIN resolvers /\ resolvers["A"].xf = <<1, 2>>
    /\ "A" \in DOMAIN instances /\ instances["A"].xf = <<1, 2>>
    /\ instances["A"].src = "resolver" /\ calls["A"] = 1
    /\ "B" \in DOMAIN instances /\ "B" \notin DOMAIN resolvers
    /\ last = Err("underivable", <<"B">>)

\* C20 as stated: in a request's container a get on the application
\* handle, the transport handle and the request value keeps returning what
\* the container was seeded with.
C20_SeededTripleKept ==
    Seeded => \A k \in RequestKeys : GetOutcome(CtxState, k).val = SeedValue(k)

\* C20 amended: the application handle and the transport handle are
\* immutable (every set, register, derive and replace on them fails with
\* ResolutionError and changes nothing, and get returns the seeded value);
\* the request value is not: a set on it succeeds and get then returns the
\* new value.
C20_AppAndServerImmutable ==
    Seeded =>
        /\ \A k \in {"app", "server"} :
              /\ k \in immutables
              /\ GetOutcome(CtxState, k) = Ok(CtxState, SeedValue(k))
              /\ \A v \in SetValues, i \in BOOLEAN :
                    SetOutcome(CtxState, k, v, i) = Fail(CtxState, Err("immutable", <<k>>))
              /\ \A r \in Resolvers, i \in BOOLEAN :
                    RegisterOutcome(CtxState, k, r, i) = Fail(CtxState, Err("immutable", <<k>>))
              /\ DeriveOutcome(CtxState, k) = Fail(CtxState, Err("immutable", <<k>>))
              /\ ReplaceOutcome(CtxState, k) = Fail(CtxState, Err("immutable", <<k>>))
        /\ "request" \notin immutables
        /\ \A v \in SetValues :
              LET out == SetOutcome(CtxState, "request", v, FALSE)
              IN  out.ok /\ GetOutcome(out.st, "request") = Ok(out.st, v)

\* C20 witness: the request value has been replaced by a set, and an
\* operation on the application handle has just failed.
C20_Witness ==
    /\ Seeded /\ last = Err("immutable", <<"app">>)
    /\ instances["app"] = SeedValue("app")
    /\ instances["request"] \in SetValues

(***************************************************************************)
(* Router and Matcher.  A string is a sequence of one-character strings,   *)
(* so that the code's character-level operations (regular expressions,     *)
(* replace, slice, encodeURI) are computed rather than assumed.            *)
(***************************************************************************)
MaxRoutes == 2      \* routes registered in one run

\* throw new RedirectError(newUrl.toString(), 307)
RedirectStatus == 307

Letters ==
    {"a", "b", "c", "d", "e", "f", "g", "h", "i", "j", "k", "l", "m",
     "n", "o", "p", "q", "r", "s", "t", "u", "v", "w", "x", "y", "z"}

Digits == {"0", "1", "2", "3", "4", "5", "6", "7", "8", "9"}

\* [a-z_] and [a-z0-9_] of the placeholder expression /\{[a-z_][a-z0-9_]*?\}/i
NameStart == Letters \cup {"_"}

NameChars == NameStart \cup Digits

Min(S) == CHOOSE x \in S : \A y \in S : x <= y

\* The characters of the model's alphabet that encodeURI escapes.
Escapes ==
    {<<" ", <<"%", "2", "0">>>>, <<"{", <<"%", "7", "B">>>>,
     <<"}", <<"%", "7", "D">>>>, <<"%", <<"%", "2", "5">>>>}

RECURSIVE encodeURI(_)
encodeURI(s) ==
    IF s = <<>> THEN <<>>
    ELSE (IF \E e \in Escapes : e[1] = s[1]
          THEN (CHOOSE e \in Escapes : e[1] = s[1])[2]
          ELSE <<s[1]>>) \o encodeURI(Tail(s))

\* decodeURI on the escapes above (a "%" that starts no escape sequence is
\* a URIError in the code; the requests of the model hold none).
RECURSIVE decodeURI(_)
decodeURI(s) ==
    IF s = <<>> THEN <<>>
    ELSE IF Len(s) >= 3 /\ \E e \in Escapes : e[2] = SubSeq(s, 1, 3)
         THEN <<(CHOOSE e \in Escapes : e[2] = SubSeq(s, 1, 3))[1]>>
              \o decodeURI(SubSeq(s, 4, Len(s)))
         ELSE <<s[1]>> \o decodeURI(Tail(s))

\* path.replace(/\/$/, ''): one trailing separator is removed.
StripTrailingSlash(p) ==
    IF p # <<>> /\ p[Len(p)] = "/" THEN SubSeq(p, 1, Len(p) - 1) ELSE p

\* .replace(/^\/?/, '/')
LeadingSlash(p) == IF p # <<>> /\ p[1] = "/" THEN p ELSE <<"/">> \o p

\* .replace(/\/+/g, '/')
RECURSIVE CollapseSlashes(_)
CollapseSlashes(p) ==
    IF Len(p) < 2 THEN p
    ELSE IF p[1] = "/" /\ p[2] = "/" THEN CollapseSlashes(Tail(p))
    ELSE <<p[1]>> \o CollapseSlashes(Tail(p))

\* join(p) of path/posix with one argument: normalize(p), which collapses
\* separators and keeps a trailing one ("." and ".." segments do not occur
\* in the paths of the model).
PosixJoin(p) == IF p = <<>> THEN <<".">> ELSE CollapseSlashes(p)

normalizePath(path) ==
    PosixJoin(CollapseSlashes(LeadingSlash(StripTrailingSlash(path))))

\* Number of characters other than "/" in path from index i on.
RECURSIVE RunLen(_, _)
RunLen(path, i) ==
    IF i > Len(path) \/ path[i] = "/" THEN 0 ELSE 1 + RunLen(path, i + 1)

\* scanParts / PARTS[Symbol.split]: every match of /\/?[^/]+/g, without its
\* first character.
RECURSIVE scanParts(_)
scanParts(path) ==
    IF path = <<>> THEN <<>>
    ELSE LET from == IF path[1] = "/" THEN 2 ELSE 1
             run == RunLen(path, from)
         IN  IF run = 0 THEN scanParts(Tail(path))
             ELSE <<SubSeq(path, 2, from + run - 1)>>
                  \o scanParts(SubSeq(path, from + run, Len(path)))

\* Length of the match of /\{[a-z_][a-z0-9_]*?\}/ at part[i], 0 if none.
RECURSIVE NameEnd(_, _)
NameEnd(part, j) ==
    IF j <= Len(part) /\ part[j] \in NameChars THEN NameEnd(part, j + 1) ELSE j

PlaceholderAt(part, i) ==
    IF part[i] # "{" \/ i + 2 > Len(part) THEN 0
    ELSE IF part[i + 1] \notin NameStart THEN 0
    ELSE LET j == NameEnd(part, i + 2)
         IN  IF j <= Len(part) /\ part[j] = "}" THEN j - i + 1 ELSE 0

\* The pattern evaluateRule builds, kept as its pieces in order: <<"c", ch>>
\* for the escaped literal character ch, <<"g">> \o name for the named group
\* (?<name>[^/]+?).
RECURSIVE PatternOf(_, _)
PatternOf(part, i) ==
    IF i > Len(part) THEN <<>>
    ELSE LET n == PlaceholderAt(part, i)
         IN  IF n > 0
             THEN <<<<"g">> \o SubSeq(part, i + 1, i + n - 2)>> \o PatternOf(part, i + n)
             ELSE <<<<"c", part[i]>>>> \o PatternOf(part, i + 1)

IsGroup(piece) == piece[1] = "g"

GroupName(piece) == Tail(piece)

\* evaluateRule(part): the part itself when it holds no placeholder, else
\* the ParamRule {pattern, params, statics}.
evaluateRule(part) ==
    LET pattern == PatternOf(part, 1)
        groups == {i \in DOMAIN pattern : IsGroup(pattern[i])}
    IN  [literal |-> groups = {},
         pattern |-> pattern,
         params |-> Cardinality(groups),
         statics |-> Len(pattern) - Cardinality(groups)]

ParamRule(rule) ==
    [pattern |-> rule.pattern, params |-> rule.params, statics |-> rule.statics]

\* sortParamRule(a, b)
sortParamRule(a, b) ==
    IF b.params - a.params # 0 THEN b.params - a.params ELSE b.statics - a.statics

\* Array.prototype.sort(sortParamRule), which is stable.
RECURSIVE InsertStable(_, _)
InsertStable(sorted, rule) ==
    IF sorted = <<>> THEN <<rule>>
    ELSE IF sortParamRule(sorted[Len(sorted)], rule) <= 0 THEN Append(sorted, rule)
    ELSE Append(InsertStable(SubSeq(sorted, 1, Len(sorted) - 1), rule), sorted[Len(sorted)])

RECURSIVE StableSort(_)
StableSort(rules) ==
    IF rules = <<>> THEN <<>>
    ELSE InsertStable(StableSort(SubSeq(rules, 1, Len(rules) - 1)), rules[Len(rules)])

\* new RegExp(`^${pattern}$`).exec(part) from piece i of the pattern and
\* character j of the part on: a group is [^/]+?, lazy, it takes the
\* fewest characters other than "/" with which the rest still matches.
\* groups maps names to captures.
NoExec == [ok |-> FALSE, groups |-> EmptyMap]

RECURSIVE ExecFrom(_, _, _, _)
ExecFrom(pattern, i, part, j) ==
    IF i > Len(pattern) THEN [ok |-> j = Len(part) + 1, groups |-> EmptyMap]
    ELSE IF ~IsGroup(pattern[i])
        THEN IF j <= Len(part) /\ part[j] = pattern[i][2]
             THEN ExecFrom(pattern, i + 1, part, j + 1)
             ELSE NoExec
    ELSE LET ks == {k \in 1..(Len(part) - j + 1) :
                       /\ \A m \in j..(j + k - 1) : part[m] # "/"
                       /\ ExecFrom(pattern, i + 1, part, j + k).ok}
         IN  IF ks = {} THEN NoExec
             ELSE LET k == Min(ks)
                      rest == ExecFrom(pattern, i + 1, part, j + k)
                  IN  [ok |-> TRUE,
                       groups |-> MapSet(rest.groups, GroupName(pattern[i]),
                                         SubSeq(part, j, j + k - 1))]

RegexExec(pattern, part) == ExecFrom(pattern, 1, part, 1)

\* compileRule(rule): for each part of the rule an escaped "/" and the
\* part's pattern (the escaped part itself when it holds no placeholder).
RECURSIVE CompileParts(_)
CompileParts(parts) ==
    IF parts = <<>> THEN <<>>
    ELSE <<<<"c", "/">>>> \o PatternOf(Head(parts), 1) \o CompileParts(Tail(parts))

compileRule(rule) == CompileParts(scanParts(rule))

\* for (const [key, value] of Object.entries(match.groups)) p.set(key, value)
Merge(params, groups) ==
    [k \in (DOMAIN params) \cup (DOMAIN groups) |->
        IF k \in DOMAIN groups THEN groups[k] ELSE params[k]]

\* A trie of Matcher objects is a map from the node's position (the edges
\* from the root) to the node's #route, #fallback and #sorted; 0 is
\* undefined.  #exact and #param of a node are its edges.
EmptyNode == [route |-> 0, fallback |-> 0, sorted |-> <<>>]

Root == <<>>

NewMatcher == [id \in {Root} |-> EmptyNode]

\* this.#exact.get(part)
ExactChild(id, part) == Append(id, [kind |-> "exact", key |-> <<part>>])

\* this.#param.get(pattern)
ParamChild(id, pattern) == Append(id, [kind |-> "param", key |-> pattern])

\* Matcher.put(parts, route, fallback) on the node id of the trie.
RECURSIVE MatcherPut(_, _, _, _, _)
MatcherPut(trie, id, parts, route, fallback) ==
    IF parts = <<>>
    THEN IF fallback THEN [trie EXCEPT ![id].fallback = route]
         ELSE [trie EXCEPT ![id].route = route]
    ELSE LET part == Head(parts)
             rule == evaluateRule(part)
             child == IF rule.literal THEN ExactChild(id, part)
                      ELSE ParamChild(id, rule.pattern)
             made == IF child \in DOMAIN trie THEN trie ELSE MapSet(trie, child, EmptyNode)
             after == MatcherPut(made, child, Tail(parts), route, fallback)
         IN  IF rule.literal THEN after
             ELSE [after EXCEPT ![id].sorted = StableSort(Append(@, ParamRule(rule)))]

\* The result of Matcher.resolve: via says whether #route or #fallback was
\* returned.
NoMatch == [found |-> FALSE, route |-> 0, via |-> "none", params |-> EmptyMap]

Found(route, via, params) ==
    [found |-> TRUE, route |-> route, via |-> via, params |-> params]

RECURSIVE MatcherResolve(_, _, _, _)
RECURSIVE TryRules(_, _, _, _, _)

\* Matcher.resolve trying the parametric rules before the literal child.
MatcherResolveParamFirst(trie, id, parts, params) ==
    LET node == trie[id]
    IN  IF parts = <<>>
        THEN IF node.route # 0 THEN Found(node.route, "route", params)
             ELSE IF node.fallback # 0 THEN Found(node.fallback, "fallback", params)
             ELSE NoMatch
        ELSE LET res == TryRules(trie, id, parts, params, 1)
             IN  IF res.found THEN res
                 ELSE IF ExactChild(id, Head(parts)) \in DOMAIN trie
                     THEN MatcherResolve(trie, ExactChild(id, Head(parts)), Tail(parts), params)
                 ELSE IF node.fallback # 0 THEN Found(node.fallback, "fallback", params)
                 ELSE NoMatch

\* The loop over #sorted with one params map shared by all candidates
\* (without const p = new Map(params)).
TryRulesSharedParams(trie, id, parts, params, i) ==
    IF i > Len(trie[id].sorted) THEN NoMatch
    ELSE LET rule == trie[id].sorted[i]
             match == RegexExec(rule.pattern, Head(parts))
             p == IF match.ok THEN Merge(params, match.groups) ELSE params
             res == IF match.ok
                    THEN MatcherResolve(trie, ParamChild(id, rule.pattern), Tail(parts), p)
                    ELSE NoMatch
         IN  IF res.found THEN res ELSE TryRules(trie, id, parts, p, i + 1)

\* The loop over #sorted returning what the first candidate that matches
\* the part gives, found or not (without `if (res) return res`).
TryRulesNoBacktrack(trie, id, parts, params, i) ==
    IF i > Len(trie[id].sorted) THEN NoMatch
    ELSE LET rule == trie[id].sorted[i]
             match == RegexExec(rule.pattern, Head(parts))
         IN  IF match.ok
             THEN MatcherResolve(trie, ParamChild(id, rule.pattern), Tail(parts),
                                 Merge(params, match.groups))
             ELSE TryRules(trie, id, parts, params, i + 1)

\* Matcher.resolve(parts, params) on the node id of the trie.
MatcherResolve(trie, id, parts, params) ==
    LET node == trie[id]
    IN  IF parts = <<>>
        THEN IF node.route # 0 THEN Found(node.route, "route", params)
             ELSE IF node.fallback # 0 THEN Found(node.fallback, "fallback", params)
             ELSE NoMatch
        ELSE IF ExactChild(id, Head(parts)) \in DOMAIN trie
            THEN MatcherResolve(trie, ExactChild(id, Head(parts)), Tail(parts), params)
        ELSE LET res == TryRules(trie, id, parts, params, 1)
             IN  IF res.found THEN res
                 ELSE IF node.fallback # 0 THEN Found(node.fallback, "fallback", params)
                 ELSE NoMatch

\* for (const rule of this.#sorted) { ... } from the i-th rule on.
TryRules(trie, id, parts, params, i) ==
    IF i > Len(trie[id].sorted) THEN NoMatch
    ELSE LET rule == trie[id].sorted[i]
             match == RegexExec(rule.pattern, Head(parts))
             res == IF match.ok
                    THEN MatcherResolve(trie, ParamChild(id, rule.pattern), Tail(parts),
                                        Merge(params, match.groups))
                    ELSE NoMatch
         IN  IF res.found THEN res ELSE TryRules(trie, id, parts, params, i + 1)

\* The paths and parameter names of the model.
P_usersId == <<"/", "u", "s", "e", "r", "s", "/", "{", "i", "d", "}">>

P_usersActive == <<"/", "u", "s", "e", "r", "s", "/", "a", "c", "t", "i", "v", "e">>

P_axy == <<"/", "a", "/", "{", "x", "}", "/", "{", "y", "}">>

P_ax == <<"/", "a", "/", "{", "x", "}">>

P_axx == <<"/", "a", "/", "{", "x", "}", "/", "{", "x", "}">>

P_avz == <<"/", "a", "/", "v", "{", "z", "}">>

P_foo == <<"/", "f", "o", "o">>

N_id == <<"i", "d">>

N_x == <<"x">>

N_y == <<"y">>

\* What the application registers: router.match(methods, path, handler,
\* {name}); "" is no name.  Paths are given as an application writes them.
RouteDefs ==
    {[methods |-> <<"GET">>, path |-> P_usersId, name |-> "user"],
     [methods |-> <<"GET">>, path |-> <<"u", "s", "e", "r", "s", "/", "a", "c", "t", "i", "v", "e", "/">>,
      name |-> ""],
     [methods |-> <<"GET">>, path |-> P_axy, name |-> ""],
     [methods |-> <<"GET">>, path |-> P_ax, name |-> "a"],
     [methods |-> <<"GET">>, path |-> P_axx, name |-> "dup"],
     [methods |-> <<"GET">>, path |-> P_avz, name |-> ""],
     [methods |-> <<"GET", "POST">>, path |-> <<"f", "o", "o">>, name |-> ""]}

\* The requests: method and url.pathname (percent-encoded, as URL gives it).
GetRequest(pathname) == [method |-> "GET", pathname |-> pathname]

Requests ==
    {GetRequest(P_usersActive),
     GetRequest(<<"/", "u", "s", "e", "r", "s", "/", "7">>),
     GetRequest(<<"/", "u", "s", "e", "r", "s", "/", "a", "c", "t", "i", "v", "e", "/">>),
     GetRequest(<<"/", "a", "/", "1", "/", "2">>),
     GetRequest(<<"/", "a", "/", "1">>),
     GetRequest(<<"/", "a", "/", "v", "1">>),
     GetRequest(<<"/", "a", "/", "v", "1", "/", "2">>),
     GetRequest(<<"/", "a", "/", "%", "2", "0", "/">>),
     GetRequest(P_foo),
     GetRequest(<<"/", "f", "o", "o", "/">>),
     GetRequest(<<"/", "f", "o", "o", "/", "/">>),
     GetRequest(<<"/">>),
     [method |-> "HEAD", pathname |-> P_foo],
     [method |-> "POST", pathname |-> P_foo],
     [method |-> "POST", pathname |-> <<"/", "a", "/", "1">>]}

\* generate(name, params): params in the order of Object.entries.
GenerateInputs ==
    {[name |-> "user", params |-> <<<<N_id, <<"5">>>>>>],
     [name |-> "dup", params |-> <<<<N_x, <<"1">>>>>>],
     [name |-> "a", params |-> <<<<N_y, <<"2">>>>>>],
     [name |-> "nope", params |-> <<>>]}

NoRequest == [method |-> "-", pathname |-> <<>>]

NoGenerate == [name |-> "-", params |-> <<>>]

\* What a call on the router gives: undefined ("none"), a resolved route
\* with its parameters, a thrown RedirectError with its target path and
\* status, a generated path, or a thrown Error.
Outcome(kind, route, via, params, text, status) ==
    [kind |-> kind, route |-> route, via |-> via, params |-> params,
     text |-> text, status |-> status]

Undefined == Outcome("none", 0, "none", EmptyMap, <<>>, 0)

NoRouted == [op |-> "none", req |-> NoRequest, gen |-> NoGenerate, out |-> Undefined]

\* The record of the last call, for a registration reg that ran: the
\* route it made, or the call stack exhausted.
Ran(reg, out) ==
    [op |-> "register", req |-> NoRequest, gen |-> NoGenerate, reg |-> reg,
     out |-> Outcome(IF out.ok THEN "registered" ELSE "overflow", out.route,
                     "none", EmptyMap, <<>>, 0)]

RouterState == [routes |-> routes, matchers |-> matchers, namedRoutes |-> namedRoutes]

\* for (const m of method) { ...this.#matchers.get(m).put(parts, route, fallback) }
RECURSIVE PutAll(_, _, _, _, _, _)
PutAll(ms, methods, i, parts, route, fallback) ==
    IF i > Len(methods) THEN ms
    ELSE LET m == methods[i]
             trie == IF m \in DOMAIN ms THEN ms[m] ELSE NewMatcher
         IN  PutAll(MapSet(ms, m, MatcherPut(trie, Root, parts, route, fallback)),
                    methods, i + 1, parts, route, fallback)

\* The options of a registration call, RouteOptions & GroupOptions: a
\* property left out is "" or, for use, the empty list.  Middleware are
\* named by strings.
Options(use, prefix, name) == [use |-> use, prefix |-> prefix, name |-> name]

NoOptions == Options(<<>>, "", "")

\* An action is a handler function or a pair [controller, method name].
HandlerFunction == <<"function">>

Action(controller, method) == <<controller, method>>

\* The controllers of the application: Child extends Base, and the
\* prototype that follows Base.prototype carries no metadata.
Controllers == {"Base", "Child"}

GetPrototypeOf(target) == IF target = "Child" THEN "Base" ELSE "null"

\* Reflect metadata under the key kUse: a map from <<target, property>> to
\* the Set stored there, in insertion order; the property of metadata
\* defined on the target itself is "".  Reflect.hasMetadata and
\* Reflect.getMetadata look at the target and then along its prototypes.
RECURSIVE MetadataOwner(_, _, _)
MetadataOwner(meta, target, property) ==
    IF target = "null" THEN "null"
    ELSE IF <<target, property>> \in DOMAIN meta THEN target
    ELSE MetadataOwner(meta, GetPrototypeOf(target), property)

\* s with the elements of t it does not hold yet added: Set.add.
RECURSIVE AddAll(_, _)
AddAll(s, t) ==
    IF t = <<>> THEN s
    ELSE AddAll(IF InSeq(Head(t), s) THEN s ELSE Append(s, Head(t)), Tail(t))

\* The decorator use(middleware) applied to (target, propertyKey): the Set is
\* looked up and defined with (kUse, target), without the property key.
useDecorator(meta, target, propertyKey, middleware) ==
    LET made == IF MetadataOwner(meta, target, "") = "null"
                THEN MapSet(meta, <<target, "">>, <<>>) ELSE meta
        owner == MetadataOwner(made, target, "")
    IN  [made EXCEPT ![<<owner, "">>] = AddAll(@, middleware)]

\* getUse(target, actionName): for each prototype from target up that
\* Reflect.getMetadata(kUse, current, actionName) finds a Set for, its
\* middleware, the later prototypes first.
RECURSIVE getUse(_, _, _)
getUse(meta, current, actionName) ==
    IF current = "null" THEN <<>>
    ELSE LET owner == MetadataOwner(meta, current, actionName)
         IN  IF owner = "null" THEN getUse(meta, GetPrototypeOf(current), actionName)
             ELSE getUse(meta, GetPrototypeOf(current), actionName)
                  \o AddAll(<<>>, meta[<<owner, actionName>>])

\* The metadata once the controllers are defined:
\*   class Base { @use(b) index(ctx) {...} }
\*   class Child extends Base { @use(c) index(ctx) {...} }
Metadata ==
    useDecorator(useDecorator(EmptyMap, "Base", "index", <<"b">>),
                 "Child", "index", <<"c">>)

\* Router.#createRoute(method, path, action, options, fallback): the route
\* object is routes[id].
createRoute(rt, methods, path, action, options, fallback) ==
    LET id == Len(rt.routes) + 1
        normal == normalizePath(path)
        middleware == IF action = HandlerFunction THEN options.use
                      ELSE getUse(Metadata, action[1], action[2]) \o options.use
        name == IF options.name # "" THEN options.prefix \o options.name ELSE ""
        route == [method |-> methods, path |-> normal, name |-> name, fallback |-> fallback,
                  prefix |-> options.prefix, middleware |-> middleware, action |-> action]
    IN  [routes |-> Append(rt.routes, route),
         namedRoutes |-> IF name # "" THEN MapSet(rt.namedRoutes, name, id)
                         ELSE rt.namedRoutes,
         matchers |-> PutAll(rt.matchers, methods, 1, scanParts(normal), id, fallback)]

\* The first lines of Router.resolve: the method looked up and the parts of
\* the normalized, decoded path.
RequestMethod(req) == IF req.method = "HEAD" THEN "GET" ELSE req.method

RequestPath(req) == normalizePath(decodeURI(req.pathname))

RequestParts(req) == scanParts(RequestPath(req))

\* matcher.resolve(parts, params) as Router.resolve calls it.
MatchOutcome(rt, req) ==
    IF RequestMethod(req) \notin DOMAIN rt.matchers THEN NoMatch
    ELSE MatcherResolve(rt.matchers[RequestMethod(req)], Root, RequestParts(req), EmptyMap)

\* url.pathname.endsWith('/') && url.pathname !== '/'
HasTrailingSlash(pathname) ==
    pathname # <<>> /\ pathname[Len(pathname)] = "/" /\ pathname # <<"/">>

\* Router.resolve(ctx)
RouterResolve(rt, req) ==
    LET res == MatchOutcome(rt, req)
    IN  IF ~res.found THEN Undefined
        ELSE IF HasTrailingSlash(req.pathname)
            THEN Outcome("redirect", 0, "none", EmptyMap,
                         encodeURI(RequestPath(req)), RedirectStatus)
        ELSE Outcome("route", res.route, res.via, res.params, <<>>, 0)

\* s.replace(pattern, value) with a string pattern: the first occurrence
\* only (the values of the model hold no "$").
IndexOf(s, pattern) ==
    LET at == {i \in 1..(Len(s) - Len(pattern) + 1) :
                  SubSeq(s, i, i + Len(pattern) - 1) = pattern}
    IN  IF at = {} THEN 0 ELSE Min(at)

ReplaceFirst(s, pattern, value) ==
    LET i == IndexOf(s, pattern)
    IN  IF i = 0 THEN s
        ELSE SubSeq(s, 1, i - 1) \o value \o SubSeq(s, i + Len(pattern), Len(s))

\* for (const [key, value] of Object.entries(params))
\*     path = path.replace(`{${key}}`, value)
RECURSIVE ReplaceEntries(_, _, _)
ReplaceEntries(path, params, i) ==
    IF i > Len(params) THEN path
    ELSE ReplaceEntries(ReplaceFirst(path, <<"{">> \o params[i][1] \o <<"}">>, params[i][2]),
                        params, i + 1)

\* Router.generate(name, params)
RouterGenerate(rt, gen) ==
    IF gen.name \notin DOMAIN rt.namedRoutes
    THEN Outcome("error", 0, "none", EmptyMap, <<>>, 0)
    ELSE Outcome("path", rt.namedRoutes[gen.name], "none", EmptyMap,
                 ReplaceEntries(rt.routes[rt.namedRoutes[gen.name]].path, gen.params, 1), 0)

\* A registration: the router's new maps; the record of the last call is
\* cleared, it described the router before the registration.
Install(rt) ==
    /\ routes' = rt.routes
    /\ matchers' = rt.matchers
    /\ namedRoutes' = rt.namedRoutes
    /\ routed' = NoRouted
    /\ UNCHANGED <<ctxVars, appVars>>

\* router.match(methods, path, handler, {name})
Match(def) ==
    /\ Len(routes) < MaxRoutes
    /\ Install(createRoute(RouterState, def.methods, def.path, HandlerFunction,
                           Options(<<>>, "", def.name), FALSE))

\* router.fallback(handler): #createRoute([], '', handler, options, true)
Fallback ==
    /\ Len(routes) < MaxRoutes
    /\ Install(createRoute(RouterState, <<>>, <<>>, HandlerFunction, NoOptions, TRUE))

\* router.resolve(ctx) for a request
ResolveRequest(req) ==
    /\ routed' = [op |-> "resolve", req |-> req, gen |-> NoGenerate,
                  out |-> RouterResolve(RouterState, req)]
    /\ UNCHANGED <<routes, matchers, namedRoutes>>
    /\ UNCHANGED <<ctxVars, appVars>>

\* router.generate(name, params)
Generate(gen) ==
    /\ routed' = [op |-> "generate", req |-> NoRequest, gen |-> gen,
                  out |-> RouterGenerate(RouterState, gen)]
    /\ UNCHANGED <<routes, matchers, namedRoutes>>
    /\ UNCHANGED <<ctxVars, appVars>>

RouterInit ==
    /\ routes = <<>>
    /\ matchers = EmptyMap
    /\ namedRoutes = EmptyMap
    /\ routed = NoRouted

RouterNext ==
    \/ \E def \in RouteDefs : Match(def)
    \/ Fallback
    \/ \E req \in Requests : ResolveRequest(req)
    \/ \E gen \in GenerateInputs : Generate(gen)

(***************************************************************************)
(* Router: groups and registrars.  A registration is a chain of calls that *)
(* starts at the router, goes through name / prefix / use / group calls    *)
(* (a group's callback receiving the group object) and ends in a match or  *)
(* a fallback, after which the route may be given a name with name(val).   *)
(***************************************************************************)
MaxStack == 3   \* nested calls of group() followed before the stack overflows

\* The objects a registration call is made on: the router, the object
\* #createGroup returns (path, prefix and use are the variables its
\* closures hold), and a RouteRegistrar with its #parent and #options.
TheRouter == [kind |-> "router"]

\* No object: the call that was to give it exhausted the call stack.
Overflowed == [kind |-> "overflow"]

Group(path, options) ==
    [kind |-> "group", path |-> path, prefix |-> options.prefix, use |-> options.use]

RouteRegistrar(parent, options) ==
    [kind |-> "registrar", parent |-> parent, options |-> options]

\* RouteRegistrar.#mergeOptions: {...this.#options, ...options, path,
\* use: [...this.#options.use, ...use]}; a property of options that is set
\* replaces the registrar's.
mergeOptions(own, options) ==
    Options(own.use \o options.use,
            IF options.prefix # "" THEN options.prefix ELSE own.prefix,
            IF options.name # "" THEN options.name ELSE own.name)

\* What a registration gives: the router's maps after it and the route
\* made, or the RangeError of a call stack that overflowed.
Registered(rt) == [ok |-> TRUE, rt |-> rt, route |-> Len(rt.routes)]

StackOverflow(rt) == [ok |-> FALSE, rt |-> rt, route |-> 0]

\* name(val), prefix(val), use(val) on an object: a registrar clones itself
\* with the merged options; the router and a group make a new registrar of
\* themselves and call the method on it.
Chained(target, options) ==
    IF target.kind = "registrar"
    THEN RouteRegistrar(target.parent, mergeOptions(target.options, options))
    ELSE RouteRegistrar(target, mergeOptions(NoOptions, options))

\* group(path, callback, options) on an object, up to the object the
\* callback is called with: Router.group makes it with #createGroup; a
\* registrar merges the options and calls its parent's group; a group makes
\* a new registrar of itself and calls group on it.
RECURSIVE groupCall(_, _, _, _)
groupCall(target, path, options, depth) ==
    IF depth > MaxStack THEN Overflowed
    ELSE IF target.kind = "router" THEN Group(path, options)
    ELSE IF target.kind = "registrar"
        THEN groupCall(target.parent, path, mergeOptions(target.options, options), depth + 1)
    ELSE groupCall(RouteRegistrar(target, NoOptions), path, options, depth + 1)

\* match(methods, path, action, options) on an object.
RECURSIVE matchCall(_, _, _, _, _, _)
matchCall(rt, target, methods, path, action, options) ==
    IF target.kind = "router"
    THEN createRoute(rt, methods, path, action, options, FALSE)
    ELSE IF target.kind = "registrar"
        THEN matchCall(rt, target.parent, methods, path, action,
                       mergeOptions(target.options, options))
    ELSE createRoute(rt, methods, target.path \o normalizePath(path), action,
                     Options(target.use \o options.use, target.prefix,
                             IF options.name # "" THEN target.prefix \o options.name ELSE ""),
                     FALSE)

\* fallback(action, options) on an object.
RECURSIVE fallbackCall(_, _, _, _)
fallbackCall(rt, target, action, options) ==
    IF target.kind = "router"
    THEN createRoute(rt, <<>>, <<>>, action, options, TRUE)
    ELSE IF target.kind = "registrar"
        THEN fallbackCall(rt, target.parent, action, mergeOptions(target.options, options))
    ELSE createRoute(rt, <<>>, target.path, action,
                     Options(target.use \o options.use, target.prefix, options.name), TRUE)

\* route.name(val) on the route object id: the entry under val is deleted
\* when it is this route's, and the route is entered under prefix + val.
routeName(rt, id, val) ==
    LET dropped == IF val \in DOMAIN rt.namedRoutes /\ rt.namedRoutes[val] = id
                   THEN [n \in DOMAIN rt.namedRoutes \ {val} |-> rt.namedRoutes[n]]
                   ELSE rt.namedRoutes
        name == rt.routes[id].prefix \o val
    IN  [rt EXCEPT !.routes[id].name = name,
                   !.namedRoutes = MapSet(dropped, name, id)]

\* The calls of a chain: prefix / name / use with their argument in the
\* options, or group with its path and options.
ChainCall(op, path, options) == [op |-> op, path |-> path, options |-> options]

\* A registration: the calls, then match(methods, path, action, options) or
\* fallback(action, options), then route.name(rename) unless rename is "".
Registration(chain, leaf, path, action, options, rename) ==
    [chain |-> chain, leaf |-> leaf, path |-> path, action |-> action,
     options |-> options, rename |-> rename]

\* The object the last call of the chain is made on.
RECURSIVE Receiver(_, _, _)
Receiver(target, chain, i) ==
    IF i > Len(chain) \/ target.kind = "overflow" THEN target
    ELSE IF chain[i].op = "group"
        THEN Receiver(groupCall(target, chain[i].path, chain[i].options, 1), chain, i + 1)
    ELSE Receiver(Chained(target, chain[i].options), chain, i + 1)

\* The registration run on the router rt.
RunRegistration(rt, reg) ==
    Only({ IF target.kind = "overflow" THEN StackOverflow(rt)
           ELSE Only({ Registered(IF reg.rename = "" THEN made
                                  ELSE routeName(made, Len(made.routes), reg.rename)) :
                       made \in {IF reg.leaf = "match"
                                 THEN matchCall(rt, target, <<"GET">>, reg.path, reg.action,
                                                reg.options)
                                 ELSE fallbackCall(rt, target, reg.action, reg.options)} }) :
           target \in {Receiver(TheRouter, reg.chain, 1)} })

P_g == <<"/", "g">>

P_x == <<"/", "x">>

P_b == <<"/", "b">>

\* What the application registers.
\*   inGroupOptionsName: router.group('/g', g => g.get('/x', h, {name: 'n'}), {prefix: 'p.'})
\*   inGroupNamedAfter:  router.group('/g', g => g.get('/x', h).name('n'), {prefix: 'p.'})
\*   byRegistrar:        router.prefix('p.').get('/x', h, {name: 'n'})
\*   registrarInGroup:   router.group('/g', g => g.prefix('q.').get('/x', h, {name: 'n'}), {prefix: 'p.'})
\*   nested:             router.group('/g', g => g.group('/b', i => i.get('/x', h)))
\*   chained:            router.prefix('p.').use(m1).prefix('q.').use(m2).get('/x', h, {use: [r]})
\*   groupOfRegistrar:   router.use(m1).group('/g', g => g.get('/x', h, {use: [r]}), {use: [m2]})
\*   controller:         router.group('/g', g => g.get('/x', [Child, 'index'], {use: [r]}), {use: [m1]})
\*   routerFallback:     router.fallback(h)
\*   groupFallback:      router.group('/g', g => g.fallback(h))
inGroupOptionsName ==
    Registration(<<ChainCall("group", P_g, Options(<<>>, "p.", ""))>>, "match", P_x,
                 HandlerFunction, Options(<<>>, "", "n"), "")

inGroupNamedAfter ==
    Registration(<<ChainCall("group", P_g, Options(<<>>, "p.", ""))>>, "match", P_x,
                 HandlerFunction, NoOptions, "n")

byRegistrar ==
    Registration(<<ChainCall("prefix", <<>>, Options(<<>>, "p.", ""))>>, "match", P_x,
                 HandlerFunction, Options(<<>>, "", "n"), "")

registrarInGroup ==
    Registration(<<ChainCall("group", P_g, Options(<<>>, "p.", "")),
                   ChainCall("prefix", <<>>, Options(<<>>, "q.", ""))>>, "match", P_x,
                 HandlerFunction, Options(<<>>, "", "n"), "")

nested ==
    Registration(<<ChainCall("group", P_g, NoOptions), ChainCall("group", P_b, NoOptions)>>,
                 "match", P_x, HandlerFunction, NoOptions, "")

chained ==
    Registration(<<ChainCall("prefix", <<>>, Options(<<>>, "p.", "")),
                   ChainCall("use", <<>>, Options(<<"m1">>, "", "")),
                   ChainCall("prefix", <<>>, Options(<<>>, "q.", "")),
                   ChainCall("use", <<>>, Options(<<"m2">>, "", ""))>>,
                 "match", P_x, HandlerFunction, Options(<<"r">>, "", ""), "")

groupOfRegistrar ==
    Registration(<<ChainCall("use", <<>>, Options(<<"m1">>, "", "")),
                   ChainCall("group", P_g, Options(<<"m2">>, "", ""))>>,
                 "match", P_x, HandlerFunction, Options(<<"r">>, "", ""), "")

controller ==
    Registration(<<ChainCall("group", P_g, Options(<<"m1">>, "", ""))>>, "match", P_x,
                 Action("Child", "index"), Options(<<"r">>, "", ""), "")

routerFallback == Registration(<<>>, "fallback", <<>>, HandlerFunction, NoOptions, "")

groupFallback ==
    Registration(<<ChainCall("group", P_g, NoOptions)>>, "fallback", <<>>,
                 HandlerFunction, NoOptions, "")

Registrations ==
    {inGroupOptionsName, inGroupNamedAfter, byRegistrar, registrarInGroup, nested,
     chained, groupOfRegistrar, controller, routerFallback, groupFallback}

GroupRequests ==
    {GetRequest(<<"/", "g", "/", "x">>), GetRequest(<<"/", "g", "/", "y">>),
     GetRequest(<<"/", "g">>), GetRequest(P_x), GetRequest(<<"/", "y">>),
     GetRequest(<<"/", "g", "/", "b", "/", "x">>)}

GroupGenerates ==
    {[name |-> n, params |-> <<>>] : n \in {"n", "p.n", "p.p.n", "q.n", "p.q.n"}}

\* A registration of the application runs; one that overflows the stack
\* leaves the router as it was.
RegisterRoute(reg) ==
    /\ Len(routes) < MaxRoutes
    /\ \E out \in {RunRegistration(RouterState, reg)} :
          /\ routes' = out.rt.routes
          /\ matchers' = out.rt.matchers
          /\ namedRoutes' = out.rt.namedRoutes
          /\ routed' = Ran(reg, out)
    /\ UNCHANGED <<ctxVars, appVars>>

GroupsNext ==
    \/ \E reg \in Registrations : RegisterRoute(reg)
    \/ \E req \in GroupRequests : ResolveRequest(req)
    \/ \E gen \in GroupGenerates : Generate(gen)

(***************************************************************************)
(* Router: the name registry.  Routes are registered with or without a     *)
(* name in the options, and a route made is renamed with route.name(val).  *)
(***************************************************************************)
Names == {"n", "m"}

NameDefs ==
    {[methods |-> <<"GET">>, path |-> path, name |-> name] :
        path \in {P_ax, P_foo}, name \in Names \cup {""}}

NameGenerates == {[name |-> name, params |-> <<>>] : name \in Names}

\* route.name(val) on the route object made by the id-th registration.
Rename(id, val) ==
    /\ id \in DOMAIN routes
    /\ \E rt \in {routeName(RouterState, id, val)} :
          /\ routes' = rt.routes
          /\ namedRoutes' = rt.namedRoutes
    /\ routed' = [op |-> "rename", req |-> NoRequest, gen |-> [name |-> val, params |-> <<>>],
                  out |-> Outcome("renamed", id, "none", EmptyMap, <<>>, 0)]
    /\ UNCHANGED matchers
    /\ UNCHANGED <<ctxVars, appVars>>

NamesNext ==
    \/ \E def \in NameDefs : Match(def)
    \/ \E id \in 1..MaxRoutes, val \in Names : Rename(id, val)
    \/ \E gen \in NameGenerates : Generate(gen)

(***************************************************************************)
(* Router: the paths normalizePath is given.  A route is registered with   *)
(* router.get(path, handler) and a request resolved with router.resolve,   *)
(* for every path of separators and one letter up to MaxPathLen long.      *)
(***************************************************************************)
MaxPathLen == 4

PathChars == {"/", "a"}

RawPaths == UNION {[1..n -> PathChars] : n \in 0..MaxPathLen}

\* url.pathname of a URL always starts with a separator.
RawPathnames == {path \in RawPaths : path # <<>> /\ path[1] = "/"}

\* router.get(path, handler) on a router without routes
GetPath(path) ==
    /\ routes = <<>>
    /\ Match([methods |-> <<"GET">>, path |-> path, name |-> ""])

PathsNext ==
    \/ \E path \in RawPaths : GetPath(path)
    \/ \E path \in RawPathnames : ResolveRequest(GetRequest(path))

(***************************************************************************)
(* Matcher: several parametric children at one node, and literal children  *)
(* beside them.  Routes are registered for GET with router.match and       *)
(* requests resolved with router.resolve.                                  *)
(***************************************************************************)
P_aXY == <<"/", "a", "/", "{", "x", "}", "{", "y", "}">>

P_abc == <<"/", "a", "/", "b", "/", "c">>

P_axd == <<"/", "a", "/", "{", "x", "}", "/", "d">>

N_z == <<"z">>

TrieDefs ==
    {[methods |-> <<"GET">>, path |-> path, name |-> ""] :
        path \in {P_ax, P_avz, P_aXY, P_axy, P_abc, P_axd}}

AV1 == GetRequest(<<"/", "a", "/", "v", "1">>)

AV12 == GetRequest(<<"/", "a", "/", "v", "1", "/", "2">>)

ABD == GetRequest(<<"/", "a", "/", "b", "/", "d">>)

TrieRequests ==
    {AV1, AV12, ABD,
     GetRequest(<<"/", "a", "/", "1">>),
     GetRequest(<<"/", "a", "/", "1", "/", "2">>),
     GetRequest(P_abc),
     GetRequest(<<"/", "a", "/", "1", "/", "d">>),
     GetRequest(<<"/", "a", "/", "b">>)}

TrieNext ==
    \/ \E def \in TrieDefs : Match(def)
    \/ \E req \in TrieRequests : ResolveRequest(req)

(***************************************************************************)
(* Matcher: fallbacks in the trie.  Matcher.put(parts, route, true) is     *)
(* what #createRoute does for each method it is given when its fallback    *)
(* argument is set; the trie of GET is given fallbacks that way, beside    *)
(* routes registered with router.match.                                    *)
(***************************************************************************)
P_a == <<"/", "a">>

FallbackPaths == {<<"/">>, P_a}

MatcherDefs ==
    {[methods |-> <<"GET">>, path |-> path, name |-> ""] : path \in {P_abc, P_axd, P_ax}}

AZ == GetRequest(<<"/", "a", "/", "z">>)

MatcherRequests ==
    {ABD, AZ, GetRequest(P_abc), GetRequest(P_a),
     GetRequest(<<"/", "z">>), GetRequest(<<"/", "a", "/", "b">>)}

\* #createRoute(['GET'], path, handler, {}, true)
PutFallback(path) ==
    /\ Len(routes) < MaxRoutes
    /\ Install(createRoute(RouterState, <<"GET">>, path, HandlerFunction, NoOptions, TRUE))

MatcherNext ==
    \/ \E def \in MatcherDefs : Match(def)
    \/ \E path \in FallbackPaths : PutFallback(path)
    \/ \E req \in MatcherRequests : ResolveRequest(req)

(***************************************************************************)
(* Claims about the Router.  The outcome of a call on the current router   *)
(* is the value of RouterResolve / RouterGenerate at RouterState, which is *)
(* what the action records in routed.                                      *)
(***************************************************************************)
\* The position at which a path was registered for GET, 0 if it was not.
RegisteredAt(path) ==
    LET at == {i \in DOMAIN routes :
                  routes[i].path = path /\ ~routes[i].fallback /\ InSeq("GET", routes[i].method)}
    IN  IF at = {} THEN 0 ELSE Min(at)

\* The parts of the template of the route a match returned.
RouteParts(route) == scanParts(routes[route].path)

\* The trie node the first i parts of a template lead to.
RECURSIVE NodeOf(_, _)
NodeOf(parts, i) ==
    IF i = 0 THEN Root
    ELSE IF evaluateRule(parts[i]).literal THEN ExactChild(NodeOf(parts, i - 1), parts[i])
    ELSE ParamChild(NodeOf(parts, i - 1), evaluateRule(parts[i]).pattern)

\* The captures of a template's parametric parts on the parts of a path,
\* taken part by part from the left.
RECURSIVE Captures(_, _, _)
Captures(template, parts, i) ==
    IF i = 0 THEN EmptyMap
    ELSE IF evaluateRule(template[i]).literal THEN Captures(template, parts, i - 1)
    ELSE Merge(Captures(template, parts, i - 1),
               RegexExec(evaluateRule(template[i]).pattern, parts[i]).groups)

\* C5: whenever a request resolves to a route, at every node on the way a
\* part of the path that equals a literal child of the node was matched by
\* that literal child (the route's part there is the literal, not a
\* parametric sibling); with /users/{id} and /users/active registered, in
\* either order, GET /users/active resolves to the literal route without
\* parameters.
C5_ExactPrecedence ==
    \A req \in Requests :
        LET res == MatchOutcome(RouterState, req)
            parts == RequestParts(req)
        IN  /\ res.found =>
                  \A i \in 1..Len(parts) :
                      ( /\ i <= Len(RouteParts(res.route))
                        /\ ExactChild(NodeOf(RouteParts(res.route), i - 1), parts[i])
                              \in DOMAIN matchers[RequestMethod(req)] )
                      => RouteParts(res.route)[i] = parts[i]
            /\ ( /\ req = GetRequest(P_usersActive)
                 /\ RegisteredAt(P_usersId) # 0 /\ RegisteredAt(P_usersActive) # 0 )
               => /\ res.found /\ res.via = "route"
                  /\ routes[res.route].path = P_usersActive
                  /\ res.params = EmptyMap
                  /\ RouterResolve(RouterState, req).kind = "route"

\* C5 witness: /users/{id} was registered before /users/active, and GET
\* /users/active has resolved to the literal route.
C5_Witness ==
    /\ RegisteredAt(P_usersId) # 0
    /\ RegisteredAt(P_usersId) < RegisteredAt(P_usersActive)
    /\ routed.op = "resolve" /\ routed.req = GetRequest(P_usersActive)
    /\ routed.out.kind = "route"
    /\ routes[routed.out.route].path = P_usersActive

A12 == GetRequest(<<"/", "a", "/", "1", "/", "2">>)

A1 == GetRequest(<<"/", "a", "/", "1">>)

\* C6: a route returned from #route (not a fallback) has as many parts as
\* the request path, each literal part equal to the path's part, each
\* parametric part's pattern matching the path's part, and the returned
\* parameters are the captures of that route's own parts; with /a/{x}/{y}
\* and /a/{x} registered, /a/1 resolves to /a/{x} with x = 1 and /a/1/2 to a
\* route of three parts, which is /a/{x}/{y} with x = 1, y = 2 unless the
\* equally ranked /a/{x}/{x} was registered first.
C6_TerminalRouteMatches ==
    \A req \in Requests :
        LET res == MatchOutcome(RouterState, req)
            parts == RequestParts(req)
        IN  /\ (res.found /\ res.via = "route") =>
                  LET template == RouteParts(res.route)
                  IN  /\ Len(template) = Len(parts)
                      /\ \A i \in 1..Len(template) :
                            IF evaluateRule(template[i]).literal
                            THEN template[i] = parts[i]
                            ELSE i <= Len(parts)
                                 /\ RegexExec(evaluateRule(template[i]).pattern, parts[i]).ok
                      /\ res.params = Captures(template, parts, Len(template))
            /\ (RegisteredAt(P_axy) # 0 /\ RegisteredAt(P_ax) # 0) =>
                  /\ req = A1 =>
                        /\ res.found /\ routes[res.route].path = P_ax
                        /\ res.params = [k \in {N_x} |-> <<"1">>]
                  /\ req = A12 =>
                        /\ res.found /\ routes[res.route].path \in {P_axy, P_axx}
                        /\ (RegisteredAt(P_axx) = 0 \/ RegisteredAt(P_axy) < RegisteredAt(P_axx))
                           => /\ routes[res.route].path = P_axy
                              /\ res.params = (N_x :> <<"1">>) @@ (N_y :> <<"2">>)

\* C6 witness: with /a/{x}/{y} and /a/{x} registered, GET /a/1/2 has
\* resolved to /a/{x}/{y} with its two captures.
C6_Witness ==
    /\ RegisteredAt(P_axy) # 0 /\ RegisteredAt(P_ax) # 0
    /\ routed.op = "resolve" /\ routed.req = A12
    /\ routed.out.kind = "route" /\ routed.out.via = "route"
    /\ routes[routed.out.route].path = P_axy
    /\ routed.out.params = (N_x :> <<"1">>) @@ (N_y :> <<"2">>)

\* a ranks before b: more named parameters, or as many and more literal
\* characters.
RanksBefore(a, b) ==
    a.params > b.params \/ (a.params = b.params /\ a.statics > b.statics)

Param(part) == ParamRule(evaluateRule(part))

\* C32: at a node with parametric children the candidates are tried in
\* specificity order and one without a result downstream is abandoned: for
\* a route returned, at each parametric part of it no candidate of the
\* node that ranks before the part's rule both matches the path's part and
\* gives a result for the rest of the path, and the parameters returned
\* are the captures of the returned route's parts alone.  With /a/{x} and
\* /a/v{z} registered in either order GET /a/v1 gives /a/v{z} with z = 1,
\* unless /a/{x}{y} is registered, which then wins with x = v, y = 1; with
\* /a/v{z} and /a/{x}/{y} registered GET /a/v1/2 gives /a/{x}/{y} with
\* x = v1 and y = 2 and no z.
C32_SpecificityAndBacktracking ==
    \A req \in TrieRequests :
        LET res == MatchOutcome(RouterState, req)
            parts == RequestParts(req)
            trie == matchers[RequestMethod(req)]
        IN  /\ (res.found /\ res.via = "route") =>
                  LET template == RouteParts(res.route)
                  IN  /\ res.params = Captures(template, parts, Len(template))
                      /\ \A i \in 1..Len(template) :
                            ~evaluateRule(template[i]).literal =>
                                \A c \in Range(trie[NodeOf(template, i - 1)].sorted) :
                                    RanksBefore(c, Param(template[i])) =>
                                        \/ ~RegexExec(c.pattern, parts[i]).ok
                                        \/ ~MatcherResolve(trie,
                                                ParamChild(NodeOf(template, i - 1), c.pattern),
                                                SubSeq(parts, i + 1, Len(parts)),
                                                EmptyMap).found
            /\ ( /\ req = AV1 /\ RegisteredAt(P_ax) # 0 /\ RegisteredAt(P_avz) # 0
                 /\ RegisteredAt(P_aXY) = 0 ) =>
                  /\ res.found /\ res.via = "route"
                  /\ routes[res.route].path = P_avz
                  /\ res.params = (N_z :> <<"1">>)
            /\ (req = AV1 /\ RegisteredAt(P_aXY) # 0) =>
                  /\ res.found /\ res.via = "route"
                  /\ routes[res.route].path = P_aXY
                  /\ res.params = (N_x :> <<"v">>) @@ (N_y :> <<"1">>)
            /\ (req = AV12 /\ RegisteredAt(P_avz) # 0 /\ RegisteredAt(P_axy) # 0) =>
                  /\ res.found /\ res.via = "route"
                  /\ routes[res.route].path = P_axy
                  /\ res.params = (N_x :> <<"v", "1">>) @@ (N_y :> <<"2">>)

\* C32 witness: with /a/v{z} and /a/{x}/{y} registered, GET /a/v1/2 has
\* resolved to /a/{x}/{y}: the candidate v{z}, tried first, matched v1 and
\* was abandoned.
C32_Witness ==
    /\ RegisteredAt(P_avz) # 0 /\ RegisteredAt(P_axy) # 0
    /\ matchers["GET"][NodeOf(scanParts(P_ax), 1)].sorted[1] = Param(<<"v", "{", "z", "}">>)
    /\ routed.op = "resolve" /\ routed.req = AV12
    /\ routed.out.kind = "route" /\ routed.out.via = "route"
    /\ routes[routed.out.route].path = P_axy
    /\ routed.out.params = (N_x :> <<"v", "1">>) @@ (N_y :> <<"2">>)

\* The nodes Matcher.resolve(parts, ...) visits from node id on: the node,
\* then the nodes under its literal child for the first part when it has
\* one, else the nodes under each parametric child the loop goes into (the
\* candidates that match, up to the first that gives a result).
RECURSIVE Visited(_, _, _)
Visited(trie, id, parts) ==
    {id} \cup
    IF parts = <<>> THEN {}
    ELSE IF ExactChild(id, Head(parts)) \in DOMAIN trie
        THEN Visited(trie, ExactChild(id, Head(parts)), Tail(parts))
    ELSE LET sorted == trie[id].sorted
             gives(i) == /\ RegexExec(sorted[i].pattern, Head(parts)).ok
                         /\ MatcherResolve(trie, ParamChild(id, sorted[i].pattern),
                                           Tail(parts), EmptyMap).found
             tried == {i \in DOMAIN sorted :
                          /\ RegexExec(sorted[i].pattern, Head(parts)).ok
                          /\ \A j \in 1..(i - 1) : ~gives(j)}
         IN  UNION {Visited(trie, ParamChild(id, sorted[i].pattern), Tail(parts)) : i \in tried}

RoutePattern(i) == compileRule(routes[i].path)

\* C34: every rule registered under a method stays reachable through the
\* trie: when the normalized path of a request matches the compiled
\* pattern of a route registered for the request's method, the router
\* resolves the request to a terminal route.
C34_RegisteredRuleReachable ==
    \A req \in TrieRequests :
        (\E i \in DOMAIN routes :
            /\ InSeq(RequestMethod(req), routes[i].method)
            /\ RegexExec(RoutePattern(i), RequestPath(req)).ok)
        => /\ RouterResolve(RouterState, req).kind = "route"
           /\ RouterResolve(RouterState, req).via = "route"

\* A path that starts with exactly one separator, holds no two adjacent
\* separators and ends with a separator only when it is the root path.
Normalized(path) ==
    /\ path # <<>>
    /\ path[1] = "/"
    /\ \A i \in 1..(Len(path) - 1) : ~(path[i] = "/" /\ path[i + 1] = "/")
    /\ path[Len(path)] = "/" => path = <<"/">>

\* C38: for every input path, normalizePath returns a path that starts with
\* exactly one separator, has no two adjacent separators and no trailing
\* separator unless it is the root, and normalizing the result again returns
\* it unchanged: so are the path of every registered route and the path
\* router.resolve matches a request on.
C38_NormalizePathCanonical ==
    /\ \A i \in DOMAIN routes :
          /\ Normalized(routes[i].path)
          /\ normalizePath(routes[i].path) = routes[i].path
    /\ routed.op = "resolve" =>
          /\ Normalized(RequestPath(routed.req))
          /\ normalizePath(RequestPath(routed.req)) = RequestPath(routed.req)

\* C35: the name registry and the routes agree after any registrations and
\* renames: the registry maps a name to a route only if the route's name()
\* reports that name, a route is in the registry under at most one name,
\* and a name just given to a route is the registry's entry for that route.
C35_RegistryAgreesWithRoutes ==
    /\ \A n \in DOMAIN namedRoutes : routes[namedRoutes[n]].name = n
    /\ \A i \in DOMAIN routes :
          Cardinality({n \in DOMAIN namedRoutes : namedRoutes[n] = i}) <= 1
    /\ routed.op = "rename" =>
          /\ routes[routed.out.route].name \in DOMAIN namedRoutes
          /\ namedRoutes[routes[routed.out.route].name] = routed.out.route

\* C7 as stated: a request whose path ends with a separator (and is not
\* the root path) and matches a route after normalization is answered by a
\* redirect whose target is the encoded normalized path and ends with no
\* separator.
C7_RedirectTargetStripped ==
    \A req \in Requests :
        (HasTrailingSlash(req.pathname) /\ MatchOutcome(RouterState, req).found) =>
            LET out == RouterResolve(RouterState, req)
            IN  /\ out.kind = "redirect"
                /\ out.text = encodeURI(RequestPath(req))
                /\ out.text[Len(out.text)] # "/"

\* The template with every placeholder {key} whose key is supplied replaced
\* by the supplied value, the other characters kept.
RECURSIVE SubstituteEach(_, _, _)
SubstituteEach(template, params, i) ==
    IF i > Len(template) THEN <<>>
    ELSE LET n == PlaceholderAt(template, i)
             supplied == IF n = 0 THEN {}
                         ELSE {j \in DOMAIN params :
                                  params[j][1] = SubSeq(template, i + 1, i + n - 2)}
         IN  IF supplied = {}
             THEN <<template[i]>> \o SubstituteEach(template, params, i + 1)
             ELSE params[Min(supplied)][2] \o SubstituteEach(template, params, i + n)

\* C8 as stated: generate gives the named route's path with each
\* placeholder {key} replaced by params[key] and the others left, and fails
\* for a name no route is registered under.
C8_GenerateReplacesEach ==
    \A gen \in GenerateInputs :
        LET out == RouterGenerate(RouterState, gen)
        IN  IF gen.name \in DOMAIN namedRoutes
            THEN /\ out.kind = "path"
                 /\ out.text = SubstituteEach(routes[namedRoutes[gen.name]].path, gen.params, 1)
            ELSE out.kind = "error"

\* The accumulations a registration's chain carries, from the outer call
\* to the inner one: the paths of its groups, the name prefixes of its
\* groups and prefix calls, the middleware of its groups and use calls.
RECURSIVE ChainPath(_, _)
ChainPath(chain, i) ==
    IF i > Len(chain) THEN <<>> ELSE chain[i].path \o ChainPath(chain, i + 1)

RECURSIVE ChainPrefix(_, _)
ChainPrefix(chain, i) ==
    IF i > Len(chain) THEN "" ELSE chain[i].options.prefix \o ChainPrefix(chain, i + 1)

RECURSIVE ChainUse(_, _)
ChainUse(chain, i) ==
    IF i > Len(chain) THEN <<>> ELSE chain[i].options.use \o ChainUse(chain, i + 1)

\* The name the application gave the route, in the options or with name().
GivenName(reg) == IF reg.rename # "" THEN reg.rename ELSE reg.options.name

\* The request's path lies under the path of route i.
Under(req, i) ==
    LET parts == RouteParts(i)
    IN  /\ Len(parts) <= Len(RequestParts(req))
        /\ SubSeq(RequestParts(req), 1, Len(parts)) = parts

\* C26: a fallback route registered with Router.fallback or a group's
\* fallback is in the trie of some method, the router resolves every
\* request under its path that no terminal route matches to a route, and
\* a fallback is not what it gives for a path a terminal route is
\* registered at.
C26_FallbackResolved ==
    \A i \in DOMAIN routes : routes[i].fallback =>
        /\ \E m \in DOMAIN matchers : \E node \in DOMAIN matchers[m] :
              matchers[m][node].fallback = i
        /\ \A req \in GroupRequests :
              LET res == MatchOutcome(RouterState, req)
              IN  /\ Under(req, i) => res.found
                  /\ (res.found /\ res.via = "fallback") =>
                        ~\E j \in DOMAIN routes :
                            ~routes[j].fallback /\ RouteParts(j) = RequestParts(req)

\* The route the registration recorded in routed made.
Made == routes[routed.out.route]

\* C27: a route named in a group with a name prefix, or through a
\* registrar carrying one, is entered in the name registry under prefix +
\* name, the prefix once, whether the name came in the options of the call
\* or through route.name(name) afterwards; route.name() gives that name
\* and generate finds the route under it.
C27_NamePrefixedOnce ==
    (routed.op = "register"
     /\ routed.reg \in {inGroupOptionsName, inGroupNamedAfter, byRegistrar}) =>
        LET name == ChainPrefix(routed.reg.chain, 1) \o GivenName(routed.reg)
        IN  /\ routed.out.kind = "registered"
            /\ Made.name = name
            /\ name \in DOMAIN namedRoutes
            /\ namedRoutes[name] = routed.out.route
            /\ RouterGenerate(RouterState, [name |-> name, params |-> <<>>]).kind = "path"

\* C28: a registration in a group nested in a group, or through chained
\* prefix / name / use calls, returns, and the route has the accumulations
\* merged from outer to inner: the group paths followed by its own path,
\* the name prefixes one after the other, the middleware of the chain
\* followed by its own.
C28_NestedAccumulate ==
    (routed.op = "register"
     /\ routed.reg \in {nested, chained, groupOfRegistrar, registrarInGroup}) =>
        /\ routed.out.kind = "registered"
        /\ Made.path = normalizePath(ChainPath(routed.reg.chain, 1) \o routed.reg.path)
        /\ Made.prefix = ChainPrefix(routed.reg.chain, 1)
        /\ Made.middleware = ChainUse(routed.reg.chain, 1) \o routed.reg.options.use

\* C29: the route of an action [Child, 'index'] has the middleware the use
\* decorator declared on index, Base's before Child's, in front of the
\* group's and the route's own.
C29_MethodMiddlewareFirst ==
    (routed.op = "register" /\ routed.reg = controller) =>
        /\ routed.out.kind = "registered"
        /\ Made.middleware =
              <<"b", "c">> \o ChainUse(controller.chain, 1) \o controller.options.use

(***************************************************************************)
(* App.#handle, the request dispatcher.  One request is handled at a time; *)
(* handle holds the locals of the running #handle call and what it has     *)
(* done so far.  What a middleware, a handler or a listener does (call     *)
(* next, return, throw) is chosen when it does it.                         *)
(***************************************************************************)
MaxMiddleware == 2  \* middleware installed with app.use
MaxNext == 2        \* calls of next() one middleware makes
MaxFinishers == 1   \* 'finishing' listeners of a request through app middleware
MaxFinishing == 2   \* 'finishing' listeners where listeners may return promises
MaxSetups == 2      \* 'request' listeners of the app

\* The request methods told apart: the two the default handler answers
\* with 404, and one of the others.
Methods == {"GET", "HEAD", "POST"}

\* A listener of the 'request' loop or of the 'finishing' loop, by its
\* position in the array listeners(event) returns.
Listener(loop, k) == [loop |-> loop, k |-> k]

NoListener == Listener("none", 0)

\* The values that travel through the chain: by is the step (1..n a
\* middleware, n + 1 the handler) or listener that made the object.
Value(kind, by) == [kind |-> kind, by |-> by]

None == Value("none", 0)

Upgraded == Value("upgraded", 0)            \* the string 'upgraded'

Undef == Value("undefined", 0)              \* #handle returned undefined

Rejected == Value("rejected", 0)            \* #handle's promise rejected

Own(step) == Value("response", step)        \* a Response the step made

Blob(step) == Value("blob", step)

Wrapped(step) == Value("wrapped", step)     \* new Response(blob)

Rendered(step) == Value("rendered", step)   \* errorHandler.render(err)

Replaced(k) == Value("replaced", k)         \* a finishing listener's setres(r)

IsResponse(v) == v.kind \in {"response", "wrapped", "rendered", "replaced"}

\* What router.resolve gives #handle: a route without or with one
\* middleware of its own, undefined, or a thrown RedirectError; "unbound"
\* is an app whose container has nothing under key.router.
RouteKinds == {"route", "route+use", "none", "redirect", "unbound"}

RouteMiddleware(route) == IF route = "route+use" THEN 1 ELSE 0

\* An activation of next(): the step it started, the calls of next() that
\* step has made, and what the last of them gave it.
Frame(step) == [step |-> step, calls |-> 0, got |-> None]

\* Beside the locals of #handle (n = middleware.length, index, res) and
\* the inputs of the request, handle records what has happened: the steps
\* started, the listeners called and those whose promise is still pending, whether the
\* router was asked and key.request.route set, the HTTPError of the
\* default handler, and what 'finished' was emitted with.
Idle ==
    [phase |-> "idle", n |-> 0, route |-> "none", finishers |-> 0, renderOk |-> TRUE,
     index |-> 0, stack |-> <<>>, res |-> None, result |-> None,
     scheduled |-> <<>>, emitted |-> <<>>,
     started |-> <<>>, upgradedAt |-> 0, threwAt |-> 0, chainRes |-> None,
     observed |-> <<>>, listenerThrew |-> FALSE,
     method |-> "GET", setups |-> 0, called |-> 0,
     running |-> {}, awaiting |-> NoListener,
     asked |-> FALSE, published |-> FALSE,
     httpError |-> 0, finishedRes |-> None]

Top(h) == h.stack[Len(h.stack)]

Pop(h) == [h EXCEPT !.stack = SubSeq(@, 1, Len(@) - 1)]

\* The body of next() up to the call of the step: middleware[index++] while
\* there is one, else the handler.
EnterNext(h) ==
    IF h.index < h.n
    THEN [h EXCEPT !.index = @ + 1,
                   !.stack = Append(@, Frame(h.index + 1)),
                   !.started = Append(@, h.index + 1)]
    ELSE [h EXCEPT !.stack = Append(@, Frame(h.n + 1)),
                   !.started = Append(@, h.n + 1)]

\* catch (err) of #handle: return errorHandler.render(err)
OuterCatch(h) ==
    [h EXCEPT !.phase = "done", !.stack = <<>>,
              !.result = IF h.renderOk THEN Rendered(0) ELSE Rejected]

\* The finishing loop from the next listener on, and after the last one
\* setImmediate(emit 'finished') and return res.
Finishing(h) ==
    IF Len(h.observed) < h.finishers THEN [h EXCEPT !.phase = "finishing"]
    ELSE [h EXCEPT !.phase = "done", !.result = h.res,
                   !.scheduled = Append(@, "finished")]

\* The dispatcher treating the sentinel as any other result.
DispatcherReceivesAnyValue(h, v) == Finishing([h EXCEPT !.chainRes = v, !.res = v])

\* let res = await next() and the code after it.
DispatcherReceives(h, v) ==
    IF v = Upgraded
    THEN [h EXCEPT !.phase = "done", !.chainRes = v, !.result = Undef,
                   !.scheduled = Append(@, "upgraded")]
    ELSE Finishing([h EXCEPT !.chainRes = v, !.res = v])

\* next() returns v to whoever called it: the middleware below on the
\* stack, or the dispatcher.
Deliver(h, v) ==
    IF h.stack = <<>> THEN DispatcherReceives(h, v)
    ELSE [h EXCEPT !.stack[Len(h.stack)].got = v]

\* The step on top returned v: the rest of next()'s try block and its
\* return statement.
NextReturns(h, v) ==
    LET noted == [h EXCEPT !.upgradedAt =
                      IF v = Upgraded /\ @ = 0 THEN Len(h.started) ELSE @]
    IN  IF v = Upgraded THEN Deliver(Pop(noted), v)
        ELSE IF v.kind = "blob" THEN Deliver(Pop(noted), Wrapped(v.by))
        ELSE Deliver(Pop(noted), v)

\* The handler used when the router resolved no route: HTTPError(404) for
\* GET and HEAD, HTTPError(405) for any other method.
DefaultHandlerGetOnly(method) == IF method = "GET" THEN 404 ELSE 405

DefaultHandler(method) == IF method \in {"GET", "HEAD"} THEN 404 ELSE 405

\* The step on top throws: the default handler its HTTPError, any other
\* step an error of its own.
Thrown(h) ==
    [h EXCEPT !.threwAt = IF @ = 0 THEN Top(h).step ELSE @,
              !.httpError = IF Top(h).step = h.n + 1 /\ h.route = "none"
                            THEN DefaultHandler(h.method) ELSE @]

\* next() without its try/catch: the error leaves the chain and reaches the
\* catch of #handle.
NextCatchesNothing(h) == OuterCatch(Thrown(h))

\* The step on top threw: the catch block of next().  When render throws
\* too, the error leaves this next(), passes through the middleware that
\* awaits it (none in the model catches it), whose own next() catches it
\* and fails to render it again, and so on down to the catch of #handle.
NextCatches(h) ==
    IF h.renderOk THEN Deliver(Pop(Thrown(h)), Rendered(Top(h).step))
    ELSE OuterCatch(Thrown(h))

\* What the step on top may return: a response of its own, what next() gave
\* it, the sentinel; a route's handler also a Blob.  The default handler
\* (no route) only throws HTTPError.
Returns(h) ==
    LET top == Top(h)
    IN  IF top.step = h.n + 1
        THEN IF h.route = "none" THEN {}
             ELSE {Own(top.step), Blob(top.step), Upgraded}
        ELSE {Own(top.step), Upgraded} \cup (IF top.calls > 0 THEN {top.got} ELSE {})

\* router.resolve(ctx) treating the redirect it throws as no route.
RoutingIgnoresRedirect(h) ==
    EnterNext([h EXCEPT !.phase = "chain", !.asked = TRUE,
                        !.published = h.route \in {"route", "route+use"}])

\* router.resolve(ctx) and the code up to the first next(): an error the
\* router throws goes to the catch of #handle; a route found is set under
\* key.request.route; the chain is the app's middleware followed by the
\* route's.
Routing(h) ==
    IF h.route = "redirect" THEN OuterCatch([h EXCEPT !.asked = TRUE])
    ELSE EnterNext([h EXCEPT !.phase = "chain", !.asked = TRUE,
                             !.published = h.route \in {"route", "route+use"}])

\* The loop over listeners('request') from the next listener on.
SetupLoop(h) ==
    IF h.called < h.setups THEN [h EXCEPT !.phase = "setup"] ELSE Routing(h)

\* The loop the listener l belongs to goes on.
NextListener(h, l) == IF l.loop = "request" THEN SetupLoop(h) ELSE Finishing(h)

\* The loops calling the next listener without waiting for the promise
\* the last one returned.
ListenerReturnedNotAwaited(h, l, val) ==
    NextListener([h EXCEPT !.running = IF val = "promise" THEN @ \cup {l} ELSE @], l)

\* if (val instanceof Promise) await val, in both loops.
ListenerReturned(h, l, val) ==
    IF val = "promise"
    THEN [h EXCEPT !.phase = "waiting", !.running = @ \cup {l}, !.awaiting = l]
    ELSE NextListener(h, l)

\* The promise of listener l settles: fulfilled, fulfilled after the
\* listener called setres, or rejected.  The loop that awaits it goes on,
\* or the rejection is thrown into #handle.
Settled(h, l, how) ==
    LET rest == [h EXCEPT !.running = @ \ {l},
                          !.res = IF how = "setres" THEN Replaced(l.k) ELSE @]
    IN  IF h.awaiting # l THEN rest
        ELSE IF how = "reject"
        THEN OuterCatch([rest EXCEPT !.awaiting = NoListener,
                                     !.listenerThrew = @ \/ l.loop = "finishing"])
        ELSE NextListener([rest EXCEPT !.awaiting = NoListener], l)

\* The next 'request' listener is called: it returns a value or a promise,
\* or throws.
SetupListener(h, does) ==
    LET k == h.called + 1
    IN  IF does = "throw" THEN OuterCatch([h EXCEPT !.called = k])
        ELSE ListenerReturned([h EXCEPT !.called = k], Listener("request", k), does)

\* The start of #handle up to the first 'request' listener: this.get(
\* key.router) comes before the try block, so its ResolutionError rejects
\* #handle.
HandleStart(mw, route, finishers, renderOk, setups, method) ==
    LET h == [Idle EXCEPT !.phase = "setup", !.n = mw + RouteMiddleware(route),
                          !.route = route, !.finishers = finishers, !.renderOk = renderOk,
                          !.setups = setups, !.method = method]
    IN  IF route = "unbound" THEN [h EXCEPT !.phase = "done", !.result = Rejected]
        ELSE SetupLoop(h)

\* The finishing loop handing every listener the chain's result instead
\* of the current res.
FinishingListenerChainResult(h, does, val) ==
    LET k == Len(h.observed) + 1
        seen == [h EXCEPT !.observed = Append(@, h.chainRes)]
    IN  IF does = "throw" THEN OuterCatch([seen EXCEPT !.listenerThrew = TRUE])
        ELSE ListenerReturned([seen EXCEPT !.res = IF does = "setres" THEN Replaced(k) ELSE @],
                              Listener("finishing", k), val)

\* The k-th finishing listener is called with the current res; it keeps
\* it, replaces it with setres, or throws, and returns a value or a promise.
FinishingListener(h, does, val) ==
    LET k == Len(h.observed) + 1
        seen == [h EXCEPT !.observed = Append(@, h.res)]
    IN  IF does = "throw" THEN OuterCatch([seen EXCEPT !.listenerThrew = TRUE])
        ELSE ListenerReturned([seen EXCEPT !.res = IF does = "setres" THEN Replaced(k) ELSE @],
                              Listener("finishing", k), val)

\* app.use(middleware), before the server is started.
Use ==
    /\ handle.phase = "idle"
    /\ appMiddleware < MaxMiddleware
    /\ appMiddleware' = appMiddleware + 1
    /\ UNCHANGED handle
    /\ UNCHANGED <<ctxVars, routerVars, flightVars>>

\* A request arrives: #handle runs up to the first step of the chain.
Begin(route, finishers, renderOk, setups, method) ==
    /\ handle.phase \in {"idle", "done"}
    /\ handle' = HandleStart(appMiddleware, route, finishers, renderOk, setups, method)
    /\ UNCHANGED appMiddleware
    /\ UNCHANGED <<ctxVars, routerVars, flightVars>>

\* The running middleware calls next().
CallNext ==
    /\ handle.phase = "chain"
    /\ Top(handle).step <= handle.n
    /\ Top(handle).calls < MaxNext
    /\ handle' = EnterNext([handle EXCEPT !.stack[Len(handle.stack)].calls = @ + 1])
    /\ UNCHANGED appMiddleware
    /\ UNCHANGED <<ctxVars, routerVars, flightVars>>

\* The running step returns.
Return(v) ==
    /\ handle.phase = "chain"
    /\ v \in Returns(handle)
    /\ handle' = NextReturns(handle, v)
    /\ UNCHANGED appMiddleware
    /\ UNCHANGED <<ctxVars, routerVars, flightVars>>

\* The running step throws.
Throw ==
    /\ handle.phase = "chain"
    /\ handle' = NextCatches(handle)
    /\ UNCHANGED appMiddleware
    /\ UNCHANGED <<ctxVars, routerVars, flightVars>>

\* The next 'request' listener runs.
Setup(does) ==
    /\ handle.phase = "setup"
    /\ handle' = SetupListener(handle, does)
    /\ UNCHANGED appMiddleware
    /\ UNCHANGED <<ctxVars, routerVars, flightVars>>

\* The next finishing listener runs.
Finish(does, val) ==
    /\ handle.phase = "finishing"
    /\ does = "throw" => val = "value"
    /\ handle' = FinishingListener(handle, does, val)
    /\ UNCHANGED appMiddleware
    /\ UNCHANGED <<ctxVars, routerVars, flightVars>>

\* The promise a listener returned settles.
Settle(l, how) ==
    /\ l \in handle.running
    /\ how = "setres" => l.loop = "finishing"
    /\ handle' = Settled(handle, l, how)
    /\ UNCHANGED appMiddleware
    /\ UNCHANGED <<ctxVars, routerVars, flightVars>>

\* The event loop runs a callback given to setImmediate: ctx.emit(event),
\* 'finished' with res as it is then.
Immediate ==
    /\ handle.scheduled # <<>>
    /\ handle' = [handle EXCEPT !.scheduled = Tail(@),
                                !.emitted = Append(@, Head(handle.scheduled)),
                                !.finishedRes = IF Head(handle.scheduled) = "finished"
                                                THEN handle.res ELSE @]
    /\ UNCHANGED appMiddleware
    /\ UNCHANGED <<ctxVars, routerVars, flightVars>>

(***************************************************************************)
(* App.#handle, several requests in flight.  The calls of #handle share    *)
(* the app and its #middleware; each has its own locals.  A call runs up   *)
(* to an await and any other call, or app.use, may run before it goes on:  *)
(* every step of a chain is an async function that may await.              *)
(***************************************************************************)
MaxRequests == 2

RequestIds == 1..MaxRequests

FlightKeys == {"K"}

ChainStep(kind, id) == [kind |-> kind, id |-> id]

HandlerStep == ChainStep("handler", 0)

\* The locals of one #handle call: ctx (its #instances: key -> the request
\* that set the value), middleware, index, and the steps next() has started.
NoFlight ==
    [phase |-> "idle", ctx |-> EmptyMap, middleware |-> <<>>, index |-> 0,
     started |-> <<>>]

\* A chain that is the app's array itself instead of a copy of it.
ChainOfApp(fl, app) == app

\* const middleware = [...this.#middleware, ...(route?.middleware ?? [])]:
\* the array next() reads is the copy made when the chain was assembled
\* (the routes of the model have no middleware of their own).
ChainOf(fl, app) == fl.middleware

\* The body of next() of the call fl, app being this.#middleware now.
FlightNext(fl, app) ==
    LET middleware == ChainOf(fl, app)
    IN  IF fl.index < Len(middleware)
        THEN [fl EXCEPT !.index = @ + 1,
                        !.started = Append(@, ChainStep("middleware", middleware[fl.index + 1]))]
        ELSE [fl EXCEPT !.started = Append(@, HandlerStep)]

\* #handle(request) up to the first step: ctx = new RequestContext(...),
\* the chain assembled, index = 0, await next().
FlightStart(r, app) ==
    FlightNext([NoFlight EXCEPT !.phase = "chain",
                                !.ctx = MapSet(EmptyMap, "request", r),
                                !.middleware = app], app)

\* app.use(middleware, prepend): the function installed is named by the
\* order of installation.
UseMiddleware(prepend) ==
    /\ Len(installed) < MaxMiddleware
    /\ installed' = IF prepend THEN <<Len(installed) + 1>> \o installed
                    ELSE Append(installed, Len(installed) + 1)
    /\ UNCHANGED flights
    /\ UNCHANGED <<ctxVars, routerVars, appMiddleware, handle>>

\* The request r arrives.
Arrive(r) ==
    /\ flights[r].phase = "idle"
    /\ flights' = [flights EXCEPT ![r] = FlightStart(r, installed)]
    /\ UNCHANGED installed
    /\ UNCHANGED <<ctxVars, routerVars, appMiddleware, handle>>

\* A step of request r calls next(); some step may call it once more when
\* the handler has been started.
FlightCallNext(r) ==
    /\ flights[r].phase = "chain"
    /\ Len(flights[r].started) <= Len(flights[r].middleware) + 1
    /\ flights' = [flights EXCEPT ![r] = FlightNext(@, installed)]
    /\ UNCHANGED installed
    /\ UNCHANGED <<ctxVars, routerVars, appMiddleware, handle>>

\* A step of request r calls ctx.set(k, value).
FlightSet(r, k) ==
    /\ flights[r].phase = "chain"
    /\ k \notin DOMAIN flights[r].ctx
    /\ flights' = [flights EXCEPT ![r].ctx = MapSet(@, k, r)]
    /\ UNCHANGED installed
    /\ UNCHANGED <<ctxVars, routerVars, appMiddleware, handle>>

\* The chain of request r returns its response.
FlightReturn(r) ==
    /\ flights[r].phase = "chain"
    /\ flights' = [flights EXCEPT ![r].phase = "done"]
    /\ UNCHANGED installed
    /\ UNCHANGED <<ctxVars, routerVars, appMiddleware, handle>>

FlightsNext ==
    \/ \E prepend \in BOOLEAN : UseMiddleware(prepend)
    \/ \E r \in RequestIds : Arrive(r)
    \/ \E r \in RequestIds : FlightCallNext(r)
    \/ \E r \in RequestIds, k \in FlightKeys : FlightSet(r, k)
    \/ \E r \in RequestIds : FlightReturn(r)

AppInit ==
    /\ appMiddleware = 0
    /\ handle = Idle
    /\ installed = <<>>
    /\ flights = [r \in RequestIds |-> NoFlight]

AllValues ==
    {None, Upgraded, Undef, Rejected}
    \cup {Value(k, s) : k \in {"response", "blob", "wrapped", "rendered", "replaced"},
                        s \in 0..(MaxMiddleware + 2)}

Listeners ==
    {Listener("request", k) : k \in 1..MaxSetups}
    \cup {Listener("finishing", k) : k \in 1..MaxFinishing}

\* GET requests to an app with middleware installed and no 'request'
\* listener, whose finishing listeners return no promise.
AppNext ==
    \/ Use
    \/ \E route \in RouteKinds, f \in 0..MaxFinishers, ok \in BOOLEAN :
          Begin(route, f, ok, 0, "GET")
    \/ CallNext
    \/ \E v \in AllValues : Return(v)
    \/ Throw
    \/ \E does \in {"keep", "setres", "throw"} : Finish(does, "value")
    \/ Immediate

\* Requests of every method the router resolves no route for, to an app
\* with middleware installed and no listener.
NoRouteNext ==
    \/ Use
    \/ \E ok \in BOOLEAN, m \in Methods : Begin("none", 0, ok, 0, m)
    \/ CallNext
    \/ \E v \in AllValues : Return(v)
    \/ Throw
    \/ Immediate

\* Requests to an app with 'request' listeners and no middleware of its
\* own (a route may bring one); listeners of both loops may return a
\* promise.
ListenersNext ==
    \/ \E route \in RouteKinds, f \in 0..MaxFinishing, ok \in BOOLEAN, n \in 0..MaxSetups :
          Begin(route, f, ok, n, "GET")
    \/ \E does \in {"value", "promise", "throw"} : Setup(does)
    \/ CallNext
    \/ \E v \in AllValues : Return(v)
    \/ Throw
    \/ \E does \in {"keep", "setres", "throw"}, val \in {"value", "promise"} : Finish(does, val)
    \/ \E l \in Listeners, how \in {"fulfil", "setres", "reject"} : Settle(l, how)
    \/ Immediate

(***************************************************************************)
(* Claims about the dispatcher.                                            *)
(***************************************************************************)
\* The notifications the request has scheduled, run or not yet.
Notifications == handle.emitted \o handle.scheduled

\* C9 as stated: once a step has returned the sentinel no further step
\* starts, no finishing listener runs, and the dispatcher ends without a
\* response after scheduling 'upgraded', whatever the middleware around
\* that step do.
C9_UpgradeAlwaysStops ==
    handle.upgradedAt > 0 =>
        /\ Len(handle.started) = handle.upgradedAt
        /\ handle.observed = <<>>
        /\ handle.phase = "done" =>
              handle.result = Undef /\ Notifications = <<"upgraded">>

\* C9 amended: next() hands the sentinel a step returns to its caller as it
\* is (not wrapped, not rendered) and starts no step; when the sentinel
\* reaches the dispatcher (the first step returned it, or every middleware
\* around the step that did returned what next() gave it), no finishing
\* listener has run or will run, 'upgraded' is the one notification
\* scheduled and #handle returns undefined; 'upgraded' is scheduled in no
\* other case.
C9_UpgradeReachingDispatcher ==
    /\ (handle.phase = "chain" /\ handle.stack # <<>>) =>
          LET out == NextReturns(handle, Upgraded)
          IN  /\ out.started = handle.started /\ out.index = handle.index
              /\ Len(handle.stack) > 1 =>
                    /\ out.phase = "chain"
                    /\ Len(out.stack) = Len(handle.stack) - 1
                    /\ Top(out).got = Upgraded
                    /\ Top(out).step = handle.stack[Len(handle.stack) - 1].step
              /\ Len(handle.stack) = 1 =>
                    /\ out.phase = "done" /\ out.chainRes = Upgraded
                    /\ out.result = Undef /\ out.observed = <<>>
                    /\ out.scheduled = <<"upgraded">>
    /\ handle.chainRes = Upgraded =>
          /\ handle.phase = "done" /\ handle.result = Undef
          /\ handle.observed = <<>>
          /\ Notifications = <<"upgraded">>
    /\ InSeq("upgraded", Notifications) => handle.chainRes = Upgraded

\* C9 witness: of two middleware and a handler, the first called next(),
\* the second returned the sentinel, the first passed it on; the handler
\* never started, the waiting finishing listener never ran, and #handle
\* returned undefined with 'upgraded' scheduled.
C9_Witness ==
    /\ handle.phase = "done" /\ handle.chainRes = Upgraded
    /\ handle.n = 2 /\ handle.started = <<1, 2>>
    /\ handle.finishers = 1 /\ handle.observed = <<>>
    /\ handle.result = Undef
    /\ handle.scheduled = <<"upgraded">>

FlightGet(r, k) == IF k \in DOMAIN flights[r].ctx THEN flights[r].ctx[k] ELSE 0

\* C39: with several requests in flight, what a request's container holds
\* was set by that request, never by another one; the steps a request has
\* started are the steps of the chain assembled for it, in order from the
\* first and then the handler, and its position is its own: whatever the
\* other requests have done and whatever app.use installed afterwards.
C39_RequestsDoNotInterfere ==
    \A r \in RequestIds :
        LET fl == flights[r]
        IN  /\ \A k \in FlightKeys \cup {"request"} : FlightGet(r, k) \in {0, r}
            /\ \A j \in DOMAIN fl.started :
                  fl.started[j] = IF j <= Len(fl.middleware)
                                  THEN ChainStep("middleware", fl.middleware[j])
                                  ELSE HandlerStep
            /\ fl.index = IF Len(fl.started) < Len(fl.middleware)
                          THEN Len(fl.started) ELSE Len(fl.middleware)

\* Two requests in flight at different positions, the first one having gone
\* on after app.use changed the app's array and after the second one set a
\* value the first has not set.
C39_Witness ==
    /\ flights[1].phase = "chain"
    /\ flights[2].phase = "chain"
    /\ flights[1].middleware # installed
    /\ Len(flights[1].started) > Len(flights[1].middleware)
    /\ flights[1].middleware # <<>>
    /\ flights[1].index # flights[2].index
    /\ FlightGet(2, "K") = 2
    /\ FlightGet(1, "K") = 0

\* C21: the steps of a chain start strictly in chain order, each step
\* once; a call of next() by step k starts step k + 1 (the handler after
\* the last middleware), so that a later step starts only through the
\* step before it and never once that step has returned without calling
\* next().
C21_StepsInChainOrder ==
    /\ \A i \in DOMAIN handle.started : handle.started[i] = i
    /\ (handle.phase = "chain" /\ handle.stack # <<>> /\ Top(handle).step <= handle.n) =>
          Top(EnterNext(handle)).step = Top(handle).step + 1

\* C40: within one request every middleware and the handler is started at
\* most once, however often next() is called: when the running middleware
\* has called next() before, another call of it starts no step.
C40_EachStepStartedOnce ==
    /\ \A i, j \in DOMAIN handle.started :
          handle.started[i] = handle.started[j] => i = j
    /\ (handle.phase = "chain" /\ handle.stack # <<>> /\ Top(handle).step <= handle.n
          /\ Top(handle).calls > 0) =>
          EnterNext(handle).started = handle.started

\* The listeners of a loop whose promise is pending.
Running(loop) == {l \in handle.running : l.loop = loop}

\* C22: the 'request' listeners are called one at a time in the order of
\* listeners('request'): the listener called is the one after the last
\* called, a listener's pending promise is that of the last one called and
\* #handle waits for it; while one is still to be called or pending the
\* router has not been asked and no step has started; the router is asked
\* only when all have been called and none is pending, and a step starts
\* only after the router was asked.
C22_SetupAwaitedBeforeRouting ==
    /\ \A l \in Running("request") :
          handle.phase = "waiting" /\ handle.awaiting = l /\ l.k = handle.called
    /\ handle.phase = "setup" =>
          /\ handle.called < handle.setups
          /\ ~handle.asked /\ handle.started = <<>>
          /\ \A does \in {"value", "promise", "throw"} :
                SetupListener(handle, does).called = handle.called + 1
    /\ (handle.phase = "waiting" /\ handle.awaiting.loop = "request") =>
          ~handle.asked /\ handle.started = <<>>
    /\ handle.asked => handle.called = handle.setups /\ Running("request") = {}
    /\ handle.started # <<>> => handle.asked

\* C22 witness: two 'request' listeners were called and are complete, the
\* router was asked and gave a route with a middleware, which has started.
C22_Witness ==
    /\ handle.setups = 2 /\ handle.called = 2 /\ handle.running = {}
    /\ handle.asked /\ handle.route = "route+use"
    /\ handle.started = <<1>>

\* C23: after a chain that gave a response the finishing listeners are
\* called one at a time in order, each with res as the listeners before
\* left it, and #handle waits for the promise of each; setres replaces res
\* for the listeners after it; 'finished' is scheduled only when every
\* listener has been called and none is pending; the response returned is
\* res as the last listener left it (the last replacement, or the chain's
\* result when there was none), and 'finished' is emitted with it.  A
\* listener that throws ends the loop (C10).
C23_FinishingThenFinished ==
    /\ \A l \in Running("finishing") :
          handle.phase = "waiting" /\ handle.awaiting = l /\ l.k = Len(handle.observed)
    /\ handle.phase = "finishing" =>
          /\ Len(handle.observed) < handle.finishers
          /\ \A does \in {"keep", "setres"}, val \in {"value", "promise"} :
                LET out == FinishingListener(handle, does, val)
                    k == Len(handle.observed) + 1
                IN  /\ out.observed = Append(handle.observed, handle.res)
                    /\ out.res = IF does = "setres" THEN Replaced(k) ELSE handle.res
                    /\ (val = "value" /\ k = handle.finishers) =>
                          /\ out.phase = "done" /\ out.result = out.res
                          /\ out.scheduled = <<"finished">>
                    /\ (val = "promise" \/ k < handle.finishers) =>
                          out.phase # "done" /\ out.scheduled = <<>>
    /\ InSeq("finished", Notifications) =>
          /\ handle.phase = "done" /\ Len(handle.observed) = handle.finishers
          /\ Running("finishing") = {}
          /\ handle.result = handle.res
    /\ (handle.phase = "done" /\ IsResponse(handle.chainRes) /\ ~handle.listenerThrew) =>
          /\ Notifications = <<"finished">>
          /\ handle.finishers > 0 => handle.observed[1] = handle.chainRes
          /\ \A k \in 2..Len(handle.observed) :
                handle.observed[k] \in {handle.observed[k - 1], Replaced(k - 1)}
          /\ handle.result \in
                (IF handle.finishers = 0 THEN {handle.chainRes}
                 ELSE {handle.observed[handle.finishers], Replaced(handle.finishers)})
          /\ handle.emitted = <<"finished">> => handle.finishedRes = handle.result

\* C23 witness: the handler's response went to two finishing listeners;
\* the first replaced it, the second saw the replacement and replaced it
\* after its promise was awaited; the last replacement was returned and
\* 'finished' emitted with it.
C23_Witness ==
    /\ handle.phase = "done" /\ handle.finishers = 2
    /\ handle.chainRes = Own(1)
    /\ handle.observed = <<Own(1), Replaced(1)>>
    /\ handle.result = Replaced(2)
    /\ handle.emitted = <<"finished">> /\ handle.finishedRes = Replaced(2)

\* What errorHandler.render(err) gives the catch of #handle: the response
\* rendered, or its own error, which rejects #handle.
RenderOutcome(h) == IF h.renderOk THEN Rendered(0) ELSE Rejected

\* A request ended by the catch of #handle before any step.
EndedBeforeChain(h) ==
    /\ h.phase = "done"
    /\ h.started = <<>> /\ h.observed = <<>>
    /\ h.scheduled = <<>> /\ h.emitted = <<>>
    /\ h.result = RenderOutcome(h)

C25_NoRouteDefaultHandler ==
    (handle.route = "none" /\ handle.asked) =>
        /\ ~handle.published
        /\ handle.n = appMiddleware
        /\ \A i \in DOMAIN handle.started : i <= handle.n + 1 => handle.started[i] = i
        /\ handle.httpError # 0 =>
              handle.httpError = IF handle.method \in {"GET", "HEAD"} THEN 404 ELSE 405
        /\ (handle.phase = "chain" /\ Top(handle).step = handle.n + 1) =>
              /\ Returns(handle) = {}
              /\ LET out == NextCatches(handle)
                 IN  /\ out.httpError = IF handle.method \in {"GET", "HEAD"} THEN 404 ELSE 405
                     /\ out.started = handle.started
                     /\ handle.renderOk =>
                           IF Len(handle.stack) > 1
                           THEN Top(out).got = Rendered(handle.n + 1)
                           ELSE out.chainRes = Rendered(handle.n + 1)

\* C25 witness: a HEAD request with no route went through two middleware
\* to the default handler, whose 404 was rendered and returned.
C25_Witness ==
    /\ handle.phase = "done" /\ handle.route = "none" /\ handle.method = "HEAD"
    /\ handle.n = 2 /\ handle.started = <<1, 2, 3>>
    /\ ~handle.published /\ handle.httpError = 404
    /\ handle.result = Rendered(3)

\* What the container is left with after each operation that can be made
\* on it now, successful or failed.
OutcomesNow ==
    {GetOutcome(CtxState, k).st : k \in Keys}
    \cup {RegisterOutcome(CtxState, k, r, i).st : k \in Keys, r \in Resolvers, i \in BOOLEAN}
    \cup {DeriveOutcome(CtxState, k).st : k \in Keys}
    \cup {SetOutcome(CtxState, k, v, i).st : k \in Keys, v \in SetValues, i \in BOOLEAN}
    \cup {ReplaceOutcome(CtxState, k).st : k \in Keys}
    \cup {ConstructOutcome(CtxState, t).st : t \in Types}
    \cup {SingletonOutcome(CtxState, t).st : t \in Types}

\* C36: the keys with a cached value, the keys with a resolver and the
\* immutable keys only grow: whatever operation is made on the container,
\* and whether it succeeds or fails, every key that had a cached value, a
\* resolver or the immutable mark before it has it afterwards.
C36_KeySetsOnlyGrow ==
    \A after \in OutcomesNow :
        /\ DOMAIN instances \subseteq DOMAIN after.inst
        /\ DOMAIN resolvers \subseteq DOMAIN after.res
        /\ immutables \subseteq after.imm

\* C36 witness: a key has a cached value, a resolver and the immutable
\* mark, and the last operation made on the container failed on an
\* immutable key.
C36_Witness ==
    /\ \E k \in Keys :
          k \in DOMAIN instances /\ k \in DOMAIN resolvers /\ k \in immutables
    /\ last.kind = "immutable"

\* The key the resolver registered for k asks for ("none" when it asks
\* for nothing), and whether following these from k leads back to k.
Dep(k) ==
    IF k \in DOMAIN resolvers /\ resolvers[k].body # <<>> THEN resolvers[k].body[1]
    ELSE "none"

RECURSIVE LeadsTo(_, _, _)
LeadsTo(from, to, n) ==
    /\ n > 0
    /\ Dep(from) # "none"
    /\ (Dep(from) = to \/ LeadsTo(Dep(from), to, n - 1))

LiesOnCycle(k) == LeadsTo(k, k, Cardinality(Keys))

Failed(i) ==
    /\ i \in DOMAIN asked
    /\ (~asked[i].ok \/ promises[asked[i].promise].state = "rejected")

\* C31: with async resolvers, a get() of a key that lies on a dependency
\* cycle eventually fails (it throws, or the promise it gave rejects); it
\* does not stay pending, also when a resolver awaits something else
\* before it asks for its dependency.
C31_CyclicGetEventuallyFails ==
    \A i \in 1..MaxGets :
        (i \in DOMAIN asked /\ LiesOnCycle(asked[i].key)) ~> Failed(i)

\* C30: every resolution a resolver starts through its scoped view (get,
\* replace, construct, singleton) carries the resolver's reference set, so
\* re-entering its own key or an ancestor's fails at once with the
\* circular-dependency ResolutionError: no get has ended by exhausting the
\* call stack, and the get of a key whose resolver calls for that same key
\* fails with the circular error after one invocation of the resolver.
ReentersItself(k) ==
    /\ k \in DOMAIN resolvers
    /\ k \notin DOMAIN instances
    /\ Callee(resolvers[k].body[1]) = k

C30_ScopedReentryFails ==
    /\ last.kind # "overflow"
    /\ \A k \in Keys :
          ReentersItself(k) /\ calls[k] = 0 =>
              \E out \in {GetOutcome(CtxState, k)} :
                  /\ ~out.ok
                  /\ out.err.kind = "circular"
                  /\ out.st.calls[k] = 1

(***************************************************************************)
(* Claims about construct and singleton.                                   *)
(***************************************************************************)
\* C12: when singleton(T) calls overlap (one begins while another on the
\* same type is suspended at its await), T is constructed once and the
\* calls settle with the same instance.
C12_OverlappingSingletonsAgree ==
    \A c1 \in Range(returned), c2 \in Range(returned) :
        (/\ c1.op = "singleton" /\ c2.op = "singleton" /\ c1.type = c2.type
         /\ c1.id \in c2.overlaps /\ c1.ok /\ c2.ok)
        => c1.val = c2.val /\ built[c1.type] <= 1

\* The instances the calls made so far have settled with or hold.
InstancesReturned == {c.val : c \in {x \in Range(returned) \cup Range(pending) : x.ok}}

\* C13: once a singleton(T) call has completed with an instance, a
\* singleton(T) made now returns that instance and constructs nothing, and
\* a construct(T) made now returns an instance no call returned before.
C13_SingletonKeptConstructFresh ==
    \A c \in Range(returned) :
        (c.op = "singleton" /\ c.ok) =>
            /\ SingletonOutcome(CtxState, c.type) = Ok(CtxState, c.val)
            /\ LET k == ConstructOutcome(CtxState, c.type)
               IN  k.ok => k.val \notin InstancesReturned

\* The keys and classes a class or a key asks for: the targets of the
\* class's wants, the lookups of the key's resolver.
Targets(x) ==
    IF x \in Types THEN {wants[x][i].target : i \in DOMAIN wants[x]}
    ELSE IF x \in DOMAIN resolvers THEN Range(resolvers[x].body)
    ELSE {}

Step(xs) == xs \cup UNION {Targets(y) : y \in xs}

\* x is on a cycle of wants: it is reached from its own targets.
OnCycle(x) == x \in Step(Step(Step(Targets(x))))

\* C14: in a container where nothing is cached yet, construct and singleton
\* on a class that lies on a cycle of wants fail with ResolutionError.
C14_WantCycleFails ==
    Started = 0 =>
        \A t \in Types :
            OnCycle(t) =>
                \A out \in {ConstructOutcome(CtxState, t), SingletonOutcome(CtxState, t)} :
                    ~out.ok /\ out.err.kind \in ResolutionErrors

\* The same for cycles none of whose wants is rooted at a parent container.
OwnWantCycleFails ==
    (Started = 0 /\ \A t \in Types : \A i \in DOMAIN wants[t] : wants[t][i].via = "own") =>
        \A t \in Types :
            OnCycle(t) =>
                \A out \in {ConstructOutcome(CtxState, t), SingletonOutcome(CtxState, t)} :
                    ~out.ok /\ out.err.kind = "circular"

(***************************************************************************)
(* Claims about resolution listeners and the 'resolved' notification.      *)
(***************************************************************************)
\* C37: when a callback attached with resolved(k, callback) is called for
\* an assignment, and when the 'resolved' notification of k is emitted, the
\* container holds the value: resolved(k) is true, and get(k) through the
\* view the callback is handed gives the value being notified, not an
\* earlier value and not an error.
C37_ListenerSeesNewValue ==
    /\ \A i \in DOMAIN immediates : Resolved(CtxState, immediates[i].key)
    /\ \A k \in Keys, v \in EventValues :
          listeners[k] # <<>> =>
              /\ Resolved(SeenByListener(CtxState, k, v), k)
              /\ ListenerGets(CtxState, k, v).ok
              /\ ListenerGets(CtxState, k, v).val = SetInternal(CtxState, k, v).val

\* C15: a callback subscribed with resolved(key, callback) fires once: no
\* callback has been called for two assignments of its key.
C15_CallbackFiresOnce ==
    \A i \in DOMAIN fired, j \in DOMAIN fired :
        (/\ fired[i].kind = "listener" /\ fired[j].kind = "listener"
         /\ fired[i].cb = fired[j].cb) => i = j

\* C16: when the 'resolved' notification of an assignment is emitted,
\* every callback that was attached to the key at the assignment has
\* already been called for that assignment.
C16_ListenersBeforeNotification ==
    \A i \in DOMAIN fired :
        fired[i].kind = "resolved" =>
            \A c \in Range(fired[i].cbs) :
                \E j \in 1..(i - 1) :
                    /\ fired[j].kind = "listener" /\ fired[j].cb = c
                    /\ fired[j].id = fired[i].id

\* The same for the assignments of plain values only.
PlainValueListenersFirst ==
    \A i \in DOMAIN fired :
        (fired[i].kind = "resolved" /\ fired[i].val.promise = "no") =>
            \A c \in Range(fired[i].cbs) :
                \E j \in 1..(i - 1) :
                    /\ fired[j].kind = "listener" /\ fired[j].cb = c
                    /\ fired[j].id = fired[i].id

\* C11: every request the dispatcher has finished with has produced a
\* response or the upgrade sentinel (undefined after an upgrade), whatever
\* failed on the way: no router bound, a setup listener, the router, a
\* middleware, the handler, a finishing listener or the error handler.
C11_AlwaysResponds ==
    handle.phase = "done" => IsResponse(handle.result) \/ handle.result = Undef

(***************************************************************************)
(* Specifications                                                          *)
(***************************************************************************)
Init == CtxInit /\ TypesInit /\ EventsInit /\ AsyncInit /\ RouterInit /\ AppInit

SpecContext == Init /\ [][CtxNext]_vars

SpecTypes == Init /\ [][TypesNext]_vars

SpecEvents == Init /\ [][EventsNext]_vars

SpecDerive == Init /\ [][DeriveNext]_vars

SpecScoped == Init /\ [][ScopedNext]_vars

SpecAsync == Init /\ [][AsyncNext]_vars /\ AsyncFairness

SpecEvery == Init /\ [][EveryNext]_vars

SpecRequest == Init /\ [][RequestNext]_vars

SpecRouter == Init /\ [][RouterNext]_vars

SpecTrie == Init /\ [][TrieNext]_vars

SpecMatcher == Init /\ [][MatcherNext]_vars

SpecNames == Init /\ [][NamesNext]_vars

SpecPaths == Init /\ [][PathsNext]_vars

SpecGroups == Init /\ [][GroupsNext]_vars

SpecApp == Init /\ [][AppNext]_vars

SpecFlights == Init /\ [][FlightsNext]_vars

SpecListeners == Init /\ [][ListenersNext]_vars

SpecNoRoute == Init /\ [][NoRouteNext]_vars

====
